---------------------------- MODULE Spec2Model ----------------------------
(***************************************************************************)
(* ThreatPilot remediation API (pankaj9599/remediation_zip).               *)
(*                                                                         *)
(* The repository holds several copies of one express handler,             *)
(* app.post("/"):                                                          *)
(*   "mem"     src/unnamed/part_001:509-732  in-memory tempBlocks + timers *)
(*   "storage" src/unnamed/part_001:74-210   OnDemand KV storage           *)
(*   "index"   src/index.js:87-233           normalizeAction + Jira/Slack  *)
(*   "jira"    src/jira.js:89-258            older normalizeAction copy    *)
(* A request is handled as a chain of synchronous segments separated by   *)
(* awaits on a collaborator (Cloudflare, Jira, Slack, KV storage).  Node   *)
(* runs each segment atomically; segments of different requests and of     *)
(* timer callbacks interleave at the awaits.  Each await is two steps: the *)
(* collaborator performs the call (or fails), then the handler resumes.    *)
(***************************************************************************)
EXTENDS Integers, Sequences, FiniteSets, TLC

VARIABLES
    variant,     \* which copy of the handler this process runs
    hasStorage,  \* part_001:7-15  storage is the KV module, or null in local mode
    webhook,     \* index.js:48  process.env.SLACK_WEBHOOK_URL is set
    kv,          \* the KV storage: key `blocked:${ip}` -> stored record
    tickets,     \* issues the Jira project holds
    slackSent,   \* messages posted to the Slack webhook
    reqs,        \* request id -> request record (its inputs, position, response)
    nextReq,     \* id the next received request gets
    cfRules,     \* Cloudflare access rules of the zone: set of [id, ip, mode]
    tempBlocks,  \* part_001:459  const tempBlocks = {}  (ip -> {rule_id, timeout})
    timers,      \* setTimeout handles: timer id -> state of the timer and its callback
    concurrentPost, \* history: pairs of same-ip block requests that awaited CF.post together
    lastBlock,   \* history: ip -> the latest answered temporary block since the last
                 \* answered permanent block or unblock of ip (0: none)
    now,         \* Date.now(), in minutes since the process started
    sweep        \* the POST /cleanup request being handled (part_001:218-239)

\* the process's configuration: fixed for a run
conf == <<variant, hasStorage, webhook>>

\* collaborators other than Cloudflare
collab == <<kv, tickets, slackSent>>

\* the clock and the cleanup endpoint
cron == <<now, sweep>>

vars == <<conf, collab, reqs, nextReq, cfRules, tempBlocks, timers, concurrentPost, lastBlock, cron>>

---------------------------------------------------------------------------
(* Bounds of the model *)

MaxReqs == 3          \* requests received in one behaviour
MaxNow == 3           \* minutes the clock runs for

ReqIds == 1..MaxReqs

IPs == {"203.0.113.1", "198.51.100.9"}
Services == {"checkout"}
Severities == {"low", "medium", "high", "critical"}

\* JavaScript's falsy "absent" value of a string field (undefined or "")
Absent == ""

---------------------------------------------------------------------------
(* Severity policy *)

getTempBanMinutes_swapped(severity) ==
    IF severity = "low" THEN 2
    ELSE IF severity = "medium" THEN 1
    ELSE 0

getTempBanMinutes_defaultMedium(severity) ==
    IF severity = "low" THEN 1
    ELSE IF severity \in {"medium", Absent} THEN 2
    ELSE 0

\* part_001:487-491 (and the same function at part_001:62-66)
getTempBanMinutes(severity) ==
    IF severity = "low" THEN 1
    ELSE IF severity = "medium" THEN 2
    ELSE 0


---------------------------------------------------------------------------
(* Requests and responses *)

\* res.status(code).json({...}): one shape for every response; a field the
\* handler does not send keeps its default.
NoResp ==
    [code |-> 0, status |-> "", action |-> "", error |-> "", named |-> "",
     permanent |-> FALSE, duration_minutes |-> 0, rule_id |-> 0,
     jira_ticket |-> 0, ips |-> {}]

\* res.json(...) answers 200
Ok(status, action) == [NoResp EXCEPT !.code = 200, !.status = status, !.action = action]

\* res.status(400).json({ error }): `named` is the action the message quotes
ClientError(error, named) == [NoResp EXCEPT !.code = 400, !.error = error, !.named = named]

\* catch (err): res.status(500).json({ status: "error", action, details }) carrying the
\* collaborator's error (part_001:203-209, 723-731)
ServerError(detail) == [NoResp EXCEPT !.code = 500, !.status = "error", !.error = detail]

\* catch (err): res.status(500).json({ error: err.message })   (index.js:229-232, jira.js:254-257)
ServerErrorPlain(detail) == [NoResp EXCEPT !.code = 500, !.error = detail]

\* A request slot before the request is received
IdleReq ==
    [pc |-> "idle", wait |-> "", action |-> "", nact |-> "", severity |-> "",
     ip |-> "", service |-> "", block |-> FALSE, issue |-> FALSE,
     description |-> FALSE, ruleId |-> 0, list |-> {}, target |-> 0,
     ticket |-> 0, calls |-> <<>>, resp |-> NoResp,
     nullTarget |-> FALSE,   \* the body carries "target": null
     expiresAt |-> 0,        \* part_001:108  Date.now() + tempMinutes * 60 * 1000
     solo |-> TRUE]   \* history: no other request was in flight during this one

\* req.body as destructured by the handler (part_001:510-514, index.js:89-104)
Body(action, severity, ip, service, block, issue, description) ==
    [IdleReq EXCEPT !.action = action, !.severity = severity, !.ip = ip,
                    !.service = service, !.block = block, !.issue = issue,
                    !.description = description]

\* return res...json(resp): the handler is over
Respond(r, resp) == [r EXCEPT !.pc = "done", !.wait = "", !.resp = resp]

\* await <collaborator call>: the call is sent, the handler is suspended on it
Await(r, call) == [r EXCEPT !.pc = call, !.wait = "sent", !.calls = Append(@, call)]

InFlight(r) == r.pc \notin {"idle", "done"}

---------------------------------------------------------------------------
(* part_001:509-732, the in-memory variant: the synchronous segment from   *)
(* the request's arrival to its first await or its response                *)

MemBlockGate_ungated(r) == TRUE

MemBlockGate_flagOnly(r) == r.block = TRUE

\* part_001:532  if (block === true || tempMinutes > 0)
MemBlockGate(r) == r.block = TRUE \/ getTempBanMinutes(r.severity) > 0

MemStart(r) ==
    IF r.action = Absent
      THEN Respond(r, ClientError("Missing 'action' field", ""))          \* 516-518
    ELSE IF r.action = "block_ip"
      THEN IF r.ip = Absent
             THEN Respond(r, ClientError("Missing 'ip' field", ""))        \* 526
           ELSE IF MemBlockGate(r)
             THEN Await(r, "cf_post")                                      \* 534
           ELSE Respond(r, Ok("skipped", "block_ip"))                      \* 581-587
    ELSE IF r.action = "unblock_ip"
      THEN IF r.ip = Absent
             THEN Respond(r, ClientError("Missing 'ip' field", ""))        \* 596
           ELSE Await(r, "cf_get")                                         \* 598
    ELSE IF r.action = "list_blocked"
      THEN Await(r, "cf_get")                                              \* 627
    ELSE IF r.action \in {"restart", "scale", "rollback"}
      THEN Respond(r, Ok("success", r.action))                             \* 644-663
    ELSE IF r.action = "drain"
      THEN IF r.service = Absent
             THEN Respond(r, ClientError("Missing target.service", ""))    \* 677-679
           ELSE Await(r, "jira")                                           \* 681
    ELSE IF r.action = "notify"
      THEN Respond(r, Ok("success", "notify"))                             \* 713-719
    ELSE Respond(r, ClientError("Unknown action", r.action))               \* 721


----------------------------------------------------------------------------
(* POST /cleanup (part_001:218-239): the request record *)

\* A stored record before any was read
NoRecord == [ip |-> "", rule_id |-> 0, severity |-> "", minutes |-> 0, expires_at |-> 0]

\* No cleanup request has been received. seen: keys the iterator has yielded;
\* cur, data: the key and the parsed record of this iteration; expired: the
\* array of 224; status: the answer; kv0, rules0, now0: history, the storage,
\* the zone and the clock when the request arrived
NoSweep ==
    [pc |-> "idle", wait |-> "", seen |-> {}, cur |-> "", data |-> NoRecord,
     expired |-> {}, status |-> "", kv0 |-> << >>, rules0 |-> {}, now0 |-> 0]

SweepAwait(s, call) == [s EXCEPT !.pc = call, !.wait = "sent"]

SweepInFlight == sweep.pc \notin {"idle", "done", "thrown"}

---------------------------------------------------------------------------
(* Timers: setTimeout / clearTimeout *)

NoTimer == [st |-> "none", wait |-> "", ip |-> "", ruleId |-> 0, minutes |-> 0]

Armed_late(ip, ruleId, minutes) ==
    [st |-> "armed", wait |-> "", ip |-> ip, ruleId |-> ruleId, minutes |-> minutes + 1]

\* setTimeout(async () => {...}, tempMinutes * 60 * 1000) closing over ip and ruleId
\* (part_001:547-557)
Armed(ip, ruleId, minutes) ==
    [st |-> "armed", wait |-> "", ip |-> ip, ruleId |-> ruleId, minutes |-> minutes]


\* clearTimeout(handle): cancels a timer that has not fired; no effect on one
\* that has fired, was cancelled, or on undefined
ClearTimeout(tm, t) ==
    IF t \in DOMAIN tm /\ tm[t].st = "armed"
      THEN [tm EXCEPT ![t].st = "cancelled"]
      ELSE tm

\* delete obj[key]
Delete(obj, key) == [k \in DOMAIN obj \ {key} |-> obj[k]]

\* obj[key] = value
Put(obj, key, value) == [k \in DOMAIN obj \cup {key} |-> IF k = key THEN value ELSE obj[k]]

LiveTimers(ip) == {t \in ReqIds : timers[t].st = "armed" /\ timers[t].ip = ip}

---------------------------------------------------------------------------
(* Collaborators: Cloudflare access rules of one zone *)

RulesFor_any(rules, ip) == rules

\* Every rule the zone holds for ip, whatever its mode
RulesFor(rules, ip) == {x \in rules : x.ip = ip}

\* POST /firewall/access_rules/rules {mode: "block", configuration: {target: "ip", value: ip}}
\* answers the new rule's id; ids are never reused (the request's own id stands for it)
CFPost(i) ==
    /\ reqs[i].pc = "cf_post" /\ reqs[i].wait = "sent"
    /\ cfRules' = cfRules \cup {[id |-> i, ip |-> reqs[i].ip, mode |-> "block"]}
    /\ reqs' = [reqs EXCEPT ![i].wait = "ok", ![i].ruleId = i]
    /\ UNCHANGED <<conf, cron, collab, nextReq, tempBlocks, timers, concurrentPost, lastBlock>>

\* GET /firewall/access_rules/rules answers the rule list as it is now
CFGet(i) ==
    /\ reqs[i].pc = "cf_get" /\ reqs[i].wait = "sent"
    /\ reqs' = [reqs EXCEPT ![i].wait = "ok", ![i].list = cfRules]
    /\ UNCHANGED <<conf, cron, collab, nextReq, cfRules, tempBlocks, timers, concurrentPost, lastBlock>>

\* DELETE /firewall/access_rules/rules/{id}
CFDelete(i) ==
    /\ reqs[i].pc = "cf_delete" /\ reqs[i].wait = "sent"
    /\ cfRules' = {x \in cfRules : x.id # reqs[i].target}
    /\ reqs' = [reqs EXCEPT ![i].wait = "ok"]
    /\ UNCHANGED <<conf, cron, collab, nextReq, tempBlocks, timers, concurrentPost, lastBlock>>

\* Any awaited call may reject (network error, 4xx/5xx): the call has no effect
CallFails(i) ==
    /\ InFlight(reqs[i]) /\ reqs[i].wait = "sent"
    /\ reqs' = [reqs EXCEPT ![i].wait = "err"]
    /\ UNCHANGED <<conf, cron, collab, nextReq, cfRules, tempBlocks, timers, concurrentPost, lastBlock>>

TimerCFDelete_byIp(t) ==
    /\ timers[t].st = "cf_delete" /\ timers[t].wait = "sent"
    /\ cfRules' = {x \in cfRules : x.ip # timers[t].ip}
    /\ timers' = [timers EXCEPT ![t].wait = "ok"]
    /\ UNCHANGED <<conf, cron, collab, reqs, nextReq, tempBlocks, concurrentPost, lastBlock>>

\* the DELETE a timer callback sent (part_001:551)
TimerCFDelete(t) ==
    /\ timers[t].st = "cf_delete" /\ timers[t].wait = "sent"
    /\ cfRules' = {x \in cfRules : x.id # timers[t].ruleId}
    /\ timers' = [timers EXCEPT ![t].wait = "ok"]
    /\ UNCHANGED <<conf, cron, collab, reqs, nextReq, tempBlocks, concurrentPost, lastBlock>>

TimerCallFails(t) ==
    /\ timers[t].st = "cf_delete" /\ timers[t].wait = "sent"
    /\ timers' = [timers EXCEPT ![t].wait = "err"]
    /\ UNCHANGED <<conf, cron, collab, reqs, nextReq, cfRules, tempBlocks, concurrentPost, lastBlock>>


---------------------------------------------------------------------------
(* part_001:509-732, the in-memory variant: the segments after each await  *)

MemClearPrevious_every(tb, tm, ip) ==
    [t \in DOMAIN tm |-> IF tm[t].st = "armed" THEN [tm[t] EXCEPT !.st = "cancelled"] ELSE tm[t]]

\* part_001:545  if (tempBlocks[ip]?.timeout) clearTimeout(tempBlocks[ip].timeout)
MemClearPrevious(tb, tm, ip) ==
    IF ip \in DOMAIN tb THEN ClearTimeout(tm, tb[ip].timeout) ELSE tm

\* part_001:540-578: CF.post resolved with the new rule's id
MemBlockInstalled(i) ==
    /\ variant = "mem"
    /\ reqs[i].pc = "cf_post" /\ reqs[i].wait = "ok"
    /\ LET r == reqs[i]
           tempMinutes == getTempBanMinutes(r.severity)
       IN /\ IF tempMinutes > 0
               THEN /\ timers' = [MemClearPrevious(tempBlocks, timers, r.ip)
                                    EXCEPT ![i] = Armed(r.ip, r.ruleId, tempMinutes)]
                    /\ tempBlocks' = Put(tempBlocks, r.ip, [rule_id |-> r.ruleId, timeout |-> i])
                    /\ reqs' = [reqs EXCEPT ![i] =
                          Respond(r, [Ok("success", "temp_block_ip")
                                        EXCEPT !.duration_minutes = tempMinutes])]
               ELSE /\ reqs' = [reqs EXCEPT ![i] =
                          Respond(r, [Ok("success", "block_ip") EXCEPT !.permanent = TRUE])]
                    /\ UNCHANGED <<tempBlocks, timers>>
          /\ lastBlock' = [lastBlock EXCEPT ![r.ip] = IF tempMinutes > 0 THEN i ELSE 0]
    /\ UNCHANGED <<conf, cron, collab, nextReq, cfRules, concurrentPost>>

MemUnblockListed_ledger(i) ==
    /\ variant = "mem"
    /\ reqs[i].action = "unblock_ip"
    /\ reqs[i].pc = "cf_get" /\ reqs[i].wait = "ok"
    /\ LET r == reqs[i]
           found == IF r.ip \in DOMAIN tempBlocks THEN RulesFor(r.list, r.ip) ELSE {}
       IN IF found = {}
            THEN reqs' = [reqs EXCEPT ![i] = Respond(r, Ok("not_found", ""))]
            ELSE \E rule \in found :
                   reqs' = [reqs EXCEPT ![i] = Await([r EXCEPT !.target = rule.id], "cf_delete")]
    /\ UNCHANGED <<conf, cron, collab, nextReq, cfRules, tempBlocks, timers, concurrentPost, lastBlock>>

\* part_001:599-608: list.data.result.find(r => r.configuration.value === ip);
\* the zone's list order is the backend's, so any matching rule may be the first
MemUnblockListed(i) ==
    /\ variant = "mem"
    /\ reqs[i].action = "unblock_ip"
    /\ reqs[i].pc = "cf_get" /\ reqs[i].wait = "ok"
    /\ LET r == reqs[i]
           found == RulesFor(r.list, r.ip)
       IN IF found = {}
            THEN reqs' = [reqs EXCEPT ![i] = Respond(r, Ok("not_found", ""))]
            ELSE \E rule \in found :
                   reqs' = [reqs EXCEPT ![i] = Await([r EXCEPT !.target = rule.id], "cf_delete")]
    /\ UNCHANGED <<conf, cron, collab, nextReq, cfRules, tempBlocks, timers, concurrentPost, lastBlock>>

MemUnblockForget_keep(tb, ip) == tb

\* part_001:610-613  if (tempBlocks[ip]) { ...; delete tempBlocks[ip]; }
MemUnblockForget(tb, ip) == Delete(tb, ip)

\* part_001:610-619: CF.delete resolved
MemUnblockDeleted(i) ==
    /\ variant = "mem"
    /\ reqs[i].pc = "cf_delete" /\ reqs[i].wait = "ok"
    /\ LET r == reqs[i]
       IN /\ timers' = MemClearPrevious(tempBlocks, timers, r.ip)
          /\ tempBlocks' = MemUnblockForget(tempBlocks, r.ip)
          /\ reqs' = [reqs EXCEPT ![i] = Respond(r, Ok("success", "unblock_ip"))]
          /\ lastBlock' = [lastBlock EXCEPT ![r.ip] = 0]
    /\ UNCHANGED <<conf, cron, collab, nextReq, cfRules, concurrentPost>>

BlockedIps_all(list) == {x.ip : x \in list}

\* .filter(r => r.mode === "block").map(r => r.configuration.value)
BlockedIps(list) == {x.ip : x \in {y \in list : y.mode = "block"}}

\* part_001:629-637
MemListed(i) ==
    /\ variant = "mem"
    /\ reqs[i].action = "list_blocked"
    /\ reqs[i].pc = "cf_get" /\ reqs[i].wait = "ok"
    /\ reqs' = [reqs EXCEPT ![i] =
          Respond(reqs[i], [Ok("success", "list_blocked") EXCEPT !.ips = BlockedIps(reqs[i].list)])]
    /\ UNCHANGED <<conf, cron, collab, nextReq, cfRules, tempBlocks, timers, concurrentPost, lastBlock>>

Caught_retry(i) ==
    /\ InFlight(reqs[i]) /\ reqs[i].wait = "err"
    /\ reqs' = [reqs EXCEPT ![i] = Await(reqs[i], reqs[i].pc)]
    /\ UNCHANGED <<conf, cron, collab, nextReq, cfRules, tempBlocks, timers, concurrentPost, lastBlock>>

Caught_forget(i) ==
    /\ InFlight(reqs[i]) /\ reqs[i].wait = "err"
    /\ reqs' = [reqs EXCEPT ![i] = Respond(reqs[i], ServerError(reqs[i].pc))]
    /\ timers' = MemClearPrevious(tempBlocks, timers, reqs[i].ip)
    /\ tempBlocks' = Delete(tempBlocks, reqs[i].ip)
    /\ UNCHANGED <<conf, cron, collab, nextReq, cfRules, concurrentPost, lastBlock>>

\* catch (err): the rejected await throws into the handler's catch
\* (part_001:723-731, part_001:203-209, part_002:155-162, index.js:229-232, jira.js:254-257)
Caught(i) ==
    /\ InFlight(reqs[i]) /\ reqs[i].wait = "err"
    /\ reqs' = [reqs EXCEPT ![i] =
          Respond(reqs[i], IF variant \in {"mem", "storage", "basic"}
                             THEN ServerError(reqs[i].pc)
                             ELSE ServerErrorPlain(reqs[i].pc))]
    /\ UNCHANGED <<conf, cron, collab, nextReq, cfRules, tempBlocks, timers, concurrentPost, lastBlock>>

---------------------------------------------------------------------------
(* part_001:547-557, the expiry callback *)

\* the timer fires: the callback runs to its await CF.delete(.../${ruleId})
TimerFire(t) ==
    /\ timers[t].st = "armed"
    /\ timers' = [timers EXCEPT ![t].st = "cf_delete", ![t].wait = "sent"]
    /\ UNCHANGED <<conf, cron, collab, reqs, nextReq, cfRules, tempBlocks, concurrentPost, lastBlock>>


ExpiryCleanup_keep(tb, ip, ruleId) == tb

\* part_001:556  delete tempBlocks[ip]
ExpiryCleanup(tb, ip, ruleId) == Delete(tb, ip)

\* the delete resolved, or rejected and the catch logged it (part_001:550-556)
TimerResume(t) ==
    /\ timers[t].st = "cf_delete" /\ timers[t].wait \in {"ok", "err"}
    /\ tempBlocks' = ExpiryCleanup(tempBlocks, timers[t].ip, timers[t].ruleId)
    /\ timers' = [timers EXCEPT ![t].st = "done"]
    /\ UNCHANGED <<conf, cron, collab, reqs, nextReq, cfRules, concurrentPost, lastBlock>>

---------------------------------------------------------------------------
(* Action normalizer and severity -> ticket priority *)

\* index.js:17-29  const map = {...}
IndexAliasMap ==
    [a \in {"block", "block_ip", "unblock_ip", "restart_service", "scale_service",
            "rollback_service", "drain_service", "trigger_alert", "notify_team"} |->
        CASE a = "block" -> "block"
          [] a = "block_ip" -> "block"
          [] a = "unblock_ip" -> "unblock"
          [] a = "restart_service" -> "restart"
          [] a = "scale_service" -> "scale"
          [] a = "rollback_service" -> "rollback"
          [] a = "drain_service" -> "drain"
          [] a = "trigger_alert" -> "notify"
          [] a = "notify_team" -> "notify"]

\* jira.js:49-57  const map = {...}
JiraAliasMap ==
    [a \in {"restart_service", "scale_service", "rollback_service", "drain_service",
            "notify_team", "trigger_alert", "block"} |->
        CASE a = "restart_service" -> "restart"
          [] a = "scale_service" -> "scale"
          [] a = "rollback_service" -> "rollback"
          [] a = "drain_service" -> "drain"
          [] a = "notify_team" -> "notify"
          [] a = "trigger_alert" -> "notify"
          [] a = "block" -> "block_ip"]

\* return map[action] || action   (every value of the map is a non-empty string)
Lookup(map, action) == IF action \in DOMAIN map THEN map[action] ELSE action

normalizeAction_identity(action) == action

\* index.js:16-32
normalizeAction(action) == Lookup(IndexAliasMap, action)

\* jira.js:48-60
normalizeAction_jira(action) == Lookup(JiraAliasMap, action)

\* index.js:37-42, jira.js:38-43
priorityFromSeverity(severity) ==
    IF severity = "critical" THEN "Highest"
    ELSE IF severity = "high" THEN "High"
    ELSE IF severity = "medium" THEN "Medium"
    ELSE "Low"

---------------------------------------------------------------------------
(* part_001:74-210, the storage variant: from arrival to the first await *)

StorageStart(r) ==
    IF r.action = Absent
      THEN Respond(r, ClientError("Missing 'action'", ""))                 \* 81-83
    ELSE IF r.action = "block_ip"
      THEN IF r.ip = Absent
             THEN Respond(r, ClientError("Missing IP", ""))                \* 94
           ELSE Await(r, "cf_post")                                        \* 99
    ELSE IF r.action = "unblock_ip"
      THEN IF r.ip = Absent
             THEN Respond(r, ClientError("Missing IP", ""))                \* 147
           ELSE Await(r, "cf_get")                                         \* 149
    ELSE IF r.action = "list_blocked"
      THEN Await(r, "cf_get")                                              \* 167
    ELSE IF r.action \in {"restart", "scale", "rollback", "drain", "notify"}
      THEN Respond(r, Ok("success", r.action))                             \* 183-196
    ELSE Respond(r, ClientError("Unknown action", r.action))               \* 199

---------------------------------------------------------------------------
(* index.js:87-233: from arrival to the first await *)

ApprovalActions == {"restart", "scale", "rollback", "drain"}

IndexRequiredPresent_actionOnly(r) == r.action # Absent

\* index.js:97  !rawAction || !severity || !issue || !description
IndexRequiredPresent(r) ==
    r.action # Absent /\ r.severity # Absent /\ r.issue /\ r.description

\* index.js:109-227: the chain of if (action === ...) after normalization
IndexRoute(r, action) ==
    IF action = "block"
      THEN IF r.ip = Absent
             THEN Respond(r, ClientError("Missing target.ip", ""))         \* 110
           ELSE Await(r, "cf_post")                                        \* 112
    ELSE IF action \in ApprovalActions
      THEN IF r.service = Absent
             THEN Respond(r, ClientError("Missing target.service", ""))    \* 130, 152, 175, 197
           ELSE Await(r, "jira")                                           \* 132, 154, 177, 199
    ELSE IF action = "notify"
      THEN IF webhook
             THEN Await(r, "slack")                                        \* 219, 51
           ELSE Respond(r, ServerErrorPlain("Slack webhook not configured"))  \* 49, 229-232
    ELSE Respond(r, ClientError("Unsupported action", r.action))           \* 227

IndexStart(r) ==
    IF ~IndexRequiredPresent(r)
      THEN Respond(r, ClientError("Missing required fields", ""))          \* 97-101
      ELSE LET action == normalizeAction(r.action)                         \* 103
           IN IndexRoute([r EXCEPT !.nact = action], action)

---------------------------------------------------------------------------
(* jira.js:89-258: from arrival to the first await *)

\* jira.js:112-252
JiraRoute(r, action) ==
    IF action = "block_ip"
      THEN IF r.ip = Absent
             THEN Respond(r, ClientError("Missing target.ip", ""))         \* 113
           ELSE Await(r, "cf_post")                                        \* 115
    ELSE IF action \in ApprovalActions
      THEN IF r.service = Absent
             THEN Respond(r, ClientError("Missing target.service", ""))    \* 133, 162, 190, 216
           ELSE Await(r, "jira")                                           \* 135, 164, 192, 218
    ELSE IF action = "notify"
      THEN IF webhook
             THEN Await(r, "slack")                                        \* 242, 21
           ELSE Respond(r, ServerErrorPlain("Slack webhook not configured"))  \* 19, 254-257
    ELSE Respond(r, ClientError("Unsupported action", r.action))           \* 250-252

JiraStart(r) ==
    IF r.action = Absent
      THEN Respond(r, ClientError("Missing action", ""))                   \* 99-101
      ELSE LET action == normalizeAction_jira(r.action)                    \* 103
           IN JiraRoute([r EXCEPT !.nact = action], action)

---------------------------------------------------------------------------
(* Collaborators: Jira, Slack, KV storage *)

\* The createJiraTicket argument each copy of the handler builds
TicketFields(v, r) ==
    IF v = "mem"
      THEN [action |-> "drain", service |-> r.service,                     \* part_001:681-701
            priority |-> IF r.severity = "critical" THEN "Highest" ELSE "High",
            issueType |-> "Task",
            labels |-> {"threatpilot", "drain", "manual-approval"}]
      ELSE [action |-> r.nact, service |-> r.service,                      \* index.js:132-138 ...
            priority |-> priorityFromSeverity(r.severity),
            issueType |-> "Task",
            labels |-> {"threatpilot", r.nact}]

\* part_000:17-36  createJiraTicket: POST /issue, answers res.data.key
\* (the request's own id stands for the new issue's key)
CreateJiraTicket(i) ==
    /\ reqs[i].pc = "jira" /\ reqs[i].wait = "sent"
    /\ tickets' = tickets \cup {[key |-> i, fields |-> TicketFields(variant, reqs[i])]}
    /\ reqs' = [reqs EXCEPT ![i].wait = "ok", ![i].ticket = i]
    /\ UNCHANGED <<conf, cron, kv, slackSent, nextReq, cfRules, tempBlocks, timers, concurrentPost, lastBlock>>

\* index.js:51-61  await fetch(webhook, {method: "POST", ...})
SlackPost(i) ==
    /\ reqs[i].pc = "slack" /\ reqs[i].wait = "sent"
    /\ slackSent' = slackSent + 1
    /\ reqs' = [reqs EXCEPT ![i].wait = "ok"]
    /\ UNCHANGED <<conf, cron, kv, tickets, nextReq, cfRules, tempBlocks, timers, concurrentPost, lastBlock>>

\* part_001:111-119  storage.put(`blocked:${ip}`, JSON.stringify({ip, rule_id, severity, expires_at}))
KvPut(i) ==
    /\ reqs[i].pc = "kv_put" /\ reqs[i].wait = "sent"
    /\ kv' = Put(kv, reqs[i].ip,
                 [ip |-> reqs[i].ip, rule_id |-> reqs[i].ruleId, severity |-> reqs[i].severity,
                  minutes |-> getTempBanMinutes(reqs[i].severity),
                  expires_at |-> reqs[i].expiresAt])
    /\ reqs' = [reqs EXCEPT ![i].wait = "ok"]
    /\ UNCHANGED <<conf, cron, tickets, slackSent, nextReq, cfRules, tempBlocks, timers, concurrentPost, lastBlock>>

\* part_001:156  storage.delete(`blocked:${ip}`)
KvDelete(i) ==
    /\ reqs[i].pc = "kv_delete" /\ reqs[i].wait = "sent"
    /\ kv' = Delete(kv, reqs[i].ip)
    /\ reqs' = [reqs EXCEPT ![i].wait = "ok"]
    /\ UNCHANGED <<conf, cron, tickets, slackSent, nextReq, cfRules, tempBlocks, timers, concurrentPost, lastBlock>>

---------------------------------------------------------------------------
(* part_001:74-210, the storage variant: the segments after each await *)

\* part_001:105-138: CF.post resolved
StorageBlockInstalled(i) ==
    /\ variant = "storage"
    /\ reqs[i].pc = "cf_post" /\ reqs[i].wait = "ok"
    /\ LET r == reqs[i]
           tempMinutes == getTempBanMinutes(r.severity)
       IN reqs' = [reqs EXCEPT ![i] =
             IF tempMinutes > 0 /\ hasStorage
               THEN Await([r EXCEPT !.expiresAt = now + tempMinutes], "kv_put")
               ELSE Respond(r, [Ok("success", "block_ip") EXCEPT !.permanent = TRUE])]
    /\ UNCHANGED <<conf, cron, collab, nextReq, cfRules, tempBlocks, timers, concurrentPost, lastBlock>>

\* part_001:121-128: storage.put resolved
StorageBlockStored(i) ==
    /\ variant = "storage"
    /\ reqs[i].pc = "kv_put" /\ reqs[i].wait = "ok"
    /\ reqs' = [reqs EXCEPT ![i] =
          Respond(reqs[i], [Ok("success", "temp_block_ip")
                              EXCEPT !.duration_minutes = getTempBanMinutes(reqs[i].severity)])]
    /\ UNCHANGED <<conf, cron, collab, nextReq, cfRules, tempBlocks, timers, concurrentPost, lastBlock>>

\* part_001:150-154
StorageUnblockListed(i) ==
    /\ variant = "storage"
    /\ reqs[i].action = "unblock_ip"
    /\ reqs[i].pc = "cf_get" /\ reqs[i].wait = "ok"
    /\ LET r == reqs[i]
           found == RulesFor(r.list, r.ip)
       IN IF found = {}
            THEN reqs' = [reqs EXCEPT ![i] = Respond(r, Ok("not_found", ""))]
            ELSE \E rule \in found :
                   reqs' = [reqs EXCEPT ![i] = Await([r EXCEPT !.target = rule.id], "cf_delete")]
    /\ UNCHANGED <<conf, cron, collab, nextReq, cfRules, tempBlocks, timers, concurrentPost, lastBlock>>

\* part_001:156-158: CF.delete resolved
StorageUnblockDeleted(i) ==
    /\ variant = "storage"
    /\ reqs[i].pc = "cf_delete" /\ reqs[i].wait = "ok"
    /\ reqs' = [reqs EXCEPT ![i] =
          IF hasStorage
            THEN Await(reqs[i], "kv_delete")
            ELSE Respond(reqs[i], Ok("success", "unblock_ip"))]
    /\ UNCHANGED <<conf, cron, collab, nextReq, cfRules, tempBlocks, timers, concurrentPost, lastBlock>>

\* part_001:158: storage.delete resolved
StorageUnblockForgotten(i) ==
    /\ variant = "storage"
    /\ reqs[i].pc = "kv_delete" /\ reqs[i].wait = "ok"
    /\ reqs' = [reqs EXCEPT ![i] = Respond(reqs[i], Ok("success", "unblock_ip"))]
    /\ UNCHANGED <<conf, cron, collab, nextReq, cfRules, tempBlocks, timers, concurrentPost, lastBlock>>

\* part_001:167-175
StorageListed(i) ==
    /\ variant = "storage"
    /\ reqs[i].action = "list_blocked"
    /\ reqs[i].pc = "cf_get" /\ reqs[i].wait = "ok"
    /\ reqs' = [reqs EXCEPT ![i] =
          Respond(reqs[i], [Ok("success", "") EXCEPT !.ips = BlockedIps(reqs[i].list)])]
    /\ UNCHANGED <<conf, cron, collab, nextReq, cfRules, tempBlocks, timers, concurrentPost, lastBlock>>

---------------------------------------------------------------------------
(* The segments after each await of the other copies *)

\* part_001:703-709: createJiraTicket resolved (drain)
MemDrainTicketed(i) ==
    /\ variant = "mem"
    /\ reqs[i].pc = "jira" /\ reqs[i].wait = "ok"
    /\ reqs' = [reqs EXCEPT ![i] =
          Respond(reqs[i], [Ok("pending_approval", "drain") EXCEPT !.jira_ticket = reqs[i].ticket])]
    /\ UNCHANGED <<conf, cron, collab, nextReq, cfRules, tempBlocks, timers, concurrentPost, lastBlock>>

\* index.js:118-123: CF.post resolved
IndexBlockInstalled(i) ==
    /\ variant = "index"
    /\ reqs[i].pc = "cf_post" /\ reqs[i].wait = "ok"
    /\ reqs' = [reqs EXCEPT ![i] =
          Respond(reqs[i], [Ok("success", "block") EXCEPT !.rule_id = reqs[i].ruleId])]
    /\ UNCHANGED <<conf, cron, collab, nextReq, cfRules, tempBlocks, timers, concurrentPost, lastBlock>>

\* index.js:140-145, 162-168, 185-190, 207-212: createJiraTicket resolved
IndexTicketed(i) ==
    /\ variant = "index"
    /\ reqs[i].pc = "jira" /\ reqs[i].wait = "ok"
    /\ reqs' = [reqs EXCEPT ![i] =
          Respond(reqs[i], [Ok("pending_approval", reqs[i].nact)
                              EXCEPT !.jira_ticket = reqs[i].ticket])]
    /\ UNCHANGED <<conf, cron, collab, nextReq, cfRules, tempBlocks, timers, concurrentPost, lastBlock>>

\* index.js:220-224: alertSRESlack resolved
IndexNotified(i) ==
    /\ variant = "index"
    /\ reqs[i].pc = "slack" /\ reqs[i].wait = "ok"
    /\ reqs' = [reqs EXCEPT ![i] = Respond(reqs[i], Ok("success", "notify"))]
    /\ UNCHANGED <<conf, cron, collab, nextReq, cfRules, tempBlocks, timers, concurrentPost, lastBlock>>

\* jira.js:121-126: CF.post resolved
JiraBlockInstalled(i) ==
    /\ variant = "jira"
    /\ reqs[i].pc = "cf_post" /\ reqs[i].wait = "ok"
    /\ reqs' = [reqs EXCEPT ![i] =
          Respond(reqs[i], [Ok("success", "block_ip") EXCEPT !.rule_id = reqs[i].ruleId])]
    /\ UNCHANGED <<conf, cron, collab, nextReq, cfRules, tempBlocks, timers, concurrentPost, lastBlock>>

\* jira.js:150-155, 177-183, 204-209, 230-235: createJiraTicket resolved
JiraTicketed(i) ==
    /\ variant = "jira"
    /\ reqs[i].pc = "jira" /\ reqs[i].wait = "ok"
    /\ reqs' = [reqs EXCEPT ![i] =
          Respond(reqs[i], [Ok("pending_approval", reqs[i].nact)
                              EXCEPT !.jira_ticket = reqs[i].ticket])]
    /\ UNCHANGED <<conf, cron, collab, nextReq, cfRules, tempBlocks, timers, concurrentPost, lastBlock>>

\* jira.js:243-247: alertSRESlack resolved
JiraNotified(i) ==
    /\ variant = "jira"
    /\ reqs[i].pc = "slack" /\ reqs[i].wait = "ok"
    /\ reqs' = [reqs EXCEPT ![i] = Respond(reqs[i], Ok("success", "notify"))]
    /\ UNCHANGED <<conf, cron, collab, nextReq, cfRules, tempBlocks, timers, concurrentPost, lastBlock>>

---------------------------------------------------------------------------
(* Arrival of a request *)

---------------------------------------------------------------------------
(* part_002:41-163, the copy without ledger, tickets or notification; it   *)
(* reads ip and service from the top of the body                           *)

BasicStart(r) ==
    IF r.action = Absent
      THEN Respond(r, ClientError("Missing 'action' field", ""))          \* 44-48
    ELSE IF r.action = "block_ip"
      THEN IF r.ip = Absent
             THEN Respond(r, ClientError("Missing 'ip' field", ""))        \* 60
           ELSE Await(r, "cf_post")                                        \* 62
    ELSE IF r.action = "unblock_ip"
      THEN IF r.ip = Absent
             THEN Respond(r, ClientError("Missing 'ip' field", ""))        \* 79
           ELSE Await(r, "cf_get")                                         \* 82
    ELSE IF r.action = "list_blocked"
      THEN Await(r, "cf_get")                                              \* 96
    ELSE IF r.action \in {"restart", "scale", "rollback", "drain", "notify"}
      THEN Respond(r, Ok("success", r.action))                             \* 110-148
    ELSE Respond(r, ClientError("Unknown action", r.action))               \* 151

\* part_002:71-76: CF.post resolved
BasicBlockInstalled(i) ==
    /\ variant = "basic"
    /\ reqs[i].pc = "cf_post" /\ reqs[i].wait = "ok"
    /\ reqs' = [reqs EXCEPT ![i] =
          Respond(reqs[i], [Ok("success", "block_ip") EXCEPT !.rule_id = reqs[i].ruleId])]
    /\ UNCHANGED <<conf, cron, collab, nextReq, cfRules, tempBlocks, timers, concurrentPost, lastBlock>>

\* part_002:83-87: CF.get resolved
BasicUnblockListed(i) ==
    /\ variant = "basic"
    /\ reqs[i].action = "unblock_ip"
    /\ reqs[i].pc = "cf_get" /\ reqs[i].wait = "ok"
    /\ LET r == reqs[i]
           found == RulesFor(r.list, r.ip)
       IN IF found = {}
            THEN reqs' = [reqs EXCEPT ![i] = Respond(r, Ok("not_found", ""))]
            ELSE \E rule \in found :
                   reqs' = [reqs EXCEPT ![i] = Await([r EXCEPT !.target = rule.id], "cf_delete")]
    /\ UNCHANGED <<conf, cron, collab, nextReq, cfRules, tempBlocks, timers, concurrentPost, lastBlock>>

\* part_002:89-93: CF.delete resolved
BasicUnblockDeleted(i) ==
    /\ variant = "basic"
    /\ reqs[i].pc = "cf_delete" /\ reqs[i].wait = "ok"
    /\ reqs' = [reqs EXCEPT ![i] = Respond(reqs[i], Ok("success", "unblock_ip"))]
    /\ UNCHANGED <<conf, cron, collab, nextReq, cfRules, tempBlocks, timers, concurrentPost, lastBlock>>

\* part_002:98-104: CF.get resolved
BasicListed(i) ==
    /\ variant = "basic"
    /\ reqs[i].action = "list_blocked"
    /\ reqs[i].pc = "cf_get" /\ reqs[i].wait = "ok"
    /\ reqs' = [reqs EXCEPT ![i] =
          Respond(reqs[i], [Ok("success", "list_blocked") EXCEPT !.ips = BlockedIps(reqs[i].list)])]
    /\ UNCHANGED <<conf, cron, collab, nextReq, cfRules, tempBlocks, timers, concurrentPost, lastBlock>>

\* The handler's promise rejected: an exception left the async callback
\* outside its try (part_001:512, part_001:77, jira.js:104), no response sent
Thrown(r) == [r EXCEPT !.pc = "thrown", !.wait = ""]

\* A body with "target": null. The destructuring default applies to an
\* undefined target only, so target.ip reads a property of null. Each copy
\* reaches that read at a different place: before everything and outside the
\* try (part_001), after the action check and outside the try (jira.js),
\* after the required-field check and inside the try (index.js), never
\* (part_002 reads ip and service from the top of the body).
NullTargetStart(v, r) ==
    CASE v \in {"mem", "storage"} -> Thrown(r)
      [] v = "jira" ->
           IF r.action = Absent
             THEN Respond(r, ClientError("Missing action", ""))
             ELSE Thrown([r EXCEPT !.nact = normalizeAction_jira(r.action)])
      [] v = "index" ->
           IF ~IndexRequiredPresent(r)
             THEN Respond(r, ClientError("Missing required fields", ""))
             ELSE Respond([r EXCEPT !.nact = normalizeAction(r.action)],
                          ServerErrorPlain("TypeError"))
      [] v = "basic" -> BasicStart(r)

HandlerStart(v, r) ==
    IF r.nullTarget THEN NullTargetStart(v, r) ELSE
    CASE v = "mem" -> MemStart(r)
      [] v = "storage" -> StorageStart(r)
      [] v = "index" -> IndexStart(r)
      [] v = "jira" -> JiraStart(r)
      [] v = "basic" -> BasicStart(r)

\* POST / with this body: the handler runs to its first await or its response
Receive(body) ==
    /\ nextReq <= MaxReqs
    /\ LET i == nextReq
           r == HandlerStart(variant, body)
           busy == {j \in ReqIds : InFlight(reqs[j])}
       IN /\ reqs' = [j \in ReqIds |->
                        IF j = i THEN [r EXCEPT !.solo = (busy = {})]
                        ELSE IF j \in busy THEN [reqs[j] EXCEPT !.solo = FALSE]
                        ELSE reqs[j]]
          /\ concurrentPost' =
               IF r.pc = "cf_post"
                 THEN concurrentPost \cup
                      {{i, j} : j \in {k \in ReqIds : reqs[k].pc = "cf_post" /\ reqs[k].ip = r.ip}}
                 ELSE concurrentPost
    /\ nextReq' = nextReq + 1
    /\ UNCHANGED <<conf, cron, collab, cfRules, tempBlocks, timers, lastBlock>>

\* Bodies of the ledger operations: block, unblock, list
LedgerBodies ==
    {Body("block_ip", s, ip, Absent, FALSE, TRUE, TRUE) : s \in {"low", "medium", "critical"}, ip \in IPs}
    \cup {Body("block_ip", "critical", ip, Absent, TRUE, TRUE, TRUE) : ip \in IPs}
    \cup {Body("unblock_ip", Absent, ip, Absent, FALSE, TRUE, TRUE) : ip \in IPs}
    \cup {Body("list_blocked", Absent, Absent, Absent, FALSE, TRUE, TRUE)}

InitCommon ==
    /\ kv = << >>
    /\ tickets = {}
    /\ slackSent = 0
    /\ reqs = [i \in ReqIds |-> IdleReq]
    /\ nextReq = 1
    /\ cfRules = {}
    /\ tempBlocks = << >>
    /\ timers = [i \in ReqIds |-> NoTimer]
    /\ concurrentPost = {}
    /\ lastBlock = [ip \in IPs |-> 0]
    /\ now = 0
    /\ sweep = NoSweep

Init == variant = "mem" /\ hasStorage = FALSE /\ webhook = FALSE /\ InitCommon

Next ==
    \/ \E body \in LedgerBodies : Receive(body)
    \/ \E i \in ReqIds : CFPost(i)
    \/ \E i \in ReqIds : CFGet(i)
    \/ \E i \in ReqIds : CFDelete(i)
    \/ \E i \in ReqIds : CallFails(i)
    \/ \E i \in ReqIds : MemBlockInstalled(i)
    \/ \E i \in ReqIds : MemUnblockListed(i)
    \/ \E i \in ReqIds : MemUnblockDeleted(i)
    \/ \E i \in ReqIds : MemListed(i)
    \/ \E i \in ReqIds : Caught(i)
    \/ \E t \in ReqIds : TimerFire(t)
    \/ \E t \in ReqIds : TimerCFDelete(t)
    \/ \E t \in ReqIds : TimerCallFails(t)
    \/ \E t \in ReqIds : TimerResume(t)

Spec == Init /\ [][Next]_vars

\* The event loop runs every due timer and every settled promise's continuation,
\* and the backend answers (or fails) every call a timer callback sends
TimerFairness ==
    \A t \in ReqIds :
        /\ WF_vars(TimerFire(t))
        /\ WF_vars(TimerCFDelete(t) \/ TimerCallFails(t))
        /\ WF_vars(TimerResume(t))

FairSpec == Spec /\ TimerFairness

\* One client that sends its next request after the answer to the last one;
\* timers and their callbacks still interleave with the requests
ReceiveSeq(body) ==
    /\ \A j \in ReqIds : ~InFlight(reqs[j])
    /\ Receive(body)

NextSeq ==
    \/ \E body \in LedgerBodies : ReceiveSeq(body)
    \/ \E i \in ReqIds : CFPost(i)
    \/ \E i \in ReqIds : CFGet(i)
    \/ \E i \in ReqIds : CFDelete(i)
    \/ \E i \in ReqIds : CallFails(i)
    \/ \E i \in ReqIds : MemBlockInstalled(i)
    \/ \E i \in ReqIds : MemUnblockListed(i)
    \/ \E i \in ReqIds : MemUnblockDeleted(i)
    \/ \E i \in ReqIds : MemListed(i)
    \/ \E i \in ReqIds : Caught(i)
    \/ \E t \in ReqIds : TimerFire(t)
    \/ \E t \in ReqIds : TimerCFDelete(t)
    \/ \E t \in ReqIds : TimerCallFails(t)
    \/ \E t \in ReqIds : TimerResume(t)

SpecSeq == Init /\ [][NextSeq]_vars

FairSeq == SpecSeq /\ TimerFairness


---------------------------------------------------------------------------
(* One request to a fresh process, for each copy of the handler and each    *)
(* configuration, drawn from every spelling of the action and every         *)
(* combination of present and absent fields                                 *)

CanonicalActions ==
    {"block", "unblock", "list_blocked", "restart", "scale", "rollback", "drain", "notify"}

RawActions ==
    CanonicalActions \cup DOMAIN IndexAliasMap \cup DOMAIN JiraAliasMap
        \cup {"frobnicate", Absent}

BlockNames == {"block", "block_ip"}
UnblockNames == {"unblock", "unblock_ip"}
ApprovalNames ==
    ApprovalActions \cup {"restart_service", "scale_service", "rollback_service", "drain_service"}

\* A field that the action does not read is left out of the body
RouteBodies ==
    {b \in [action : RawActions, severity : Severities \cup {Absent},
            ip : {Absent, "203.0.113.1"}, service : {Absent, "checkout"},
            block : BOOLEAN, issue : BOOLEAN, description : BOOLEAN] :
        /\ b.block => b.action \in BlockNames
        /\ b.ip # Absent => b.action \in BlockNames \cup UnblockNames
        /\ b.service # Absent => b.action \in ApprovalNames
        /\ b.severity \notin {Absent, "medium"} => b.action \in BlockNames \cup ApprovalNames
        /\ b.issue \/ b.description}

ReceiveFirst(b) ==
    /\ nextReq = 1
    /\ Receive(Body(b.action, b.severity, b.ip, b.service, b.block, b.issue, b.description))

\* Rules the zone may hold before the process starts
PriorRules ==
    {{}, {[id |-> 0, ip |-> "203.0.113.1", mode |-> "block"]},
         {[id |-> 0, ip |-> "203.0.113.1", mode |-> "challenge"]}}

Configurations ==
    {<<"mem", FALSE, FALSE>>, <<"storage", TRUE, FALSE>>, <<"storage", FALSE, FALSE>>,
     <<"index", FALSE, TRUE>>, <<"index", FALSE, FALSE>>,
     <<"jira", FALSE, TRUE>>, <<"jira", FALSE, FALSE>>,
     <<"basic", FALSE, FALSE>>}

InitRoute ==
    /\ \E c \in Configurations :
          /\ variant = c[1]
          /\ hasStorage = c[2]
          /\ webhook = c[3]
    /\ kv = << >>
    /\ tickets = {}
    /\ slackSent = 0
    /\ reqs = [i \in ReqIds |-> IdleReq]
    /\ nextReq = 1
    /\ cfRules \in PriorRules
    /\ tempBlocks = << >>
    /\ timers = [i \in ReqIds |-> NoTimer]
    /\ concurrentPost = {}
    /\ lastBlock = [ip \in IPs |-> 0]
    /\ now = 0
    /\ sweep = NoSweep

NextRoute ==
    \/ \E b \in RouteBodies : ReceiveFirst(b)
    \/ \E i \in ReqIds : CFPost(i)
    \/ \E i \in ReqIds : CFGet(i)
    \/ \E i \in ReqIds : CFDelete(i)
    \/ \E i \in ReqIds : CreateJiraTicket(i)
    \/ \E i \in ReqIds : SlackPost(i)
    \/ \E i \in ReqIds : KvPut(i)
    \/ \E i \in ReqIds : KvDelete(i)
    \/ \E i \in ReqIds : CallFails(i)
    \/ \E i \in ReqIds : MemBlockInstalled(i)
    \/ \E i \in ReqIds : MemUnblockListed(i)
    \/ \E i \in ReqIds : MemUnblockDeleted(i)
    \/ \E i \in ReqIds : MemListed(i)
    \/ \E i \in ReqIds : MemDrainTicketed(i)
    \/ \E i \in ReqIds : StorageBlockInstalled(i)
    \/ \E i \in ReqIds : StorageBlockStored(i)
    \/ \E i \in ReqIds : StorageUnblockListed(i)
    \/ \E i \in ReqIds : StorageUnblockDeleted(i)
    \/ \E i \in ReqIds : StorageUnblockForgotten(i)
    \/ \E i \in ReqIds : StorageListed(i)
    \/ \E i \in ReqIds : IndexBlockInstalled(i)
    \/ \E i \in ReqIds : IndexTicketed(i)
    \/ \E i \in ReqIds : IndexNotified(i)
    \/ \E i \in ReqIds : JiraBlockInstalled(i)
    \/ \E i \in ReqIds : JiraTicketed(i)
    \/ \E i \in ReqIds : JiraNotified(i)
    \/ \E i \in ReqIds : BasicBlockInstalled(i)
    \/ \E i \in ReqIds : BasicUnblockListed(i)
    \/ \E i \in ReqIds : BasicUnblockDeleted(i)
    \/ \E i \in ReqIds : BasicListed(i)
    \/ \E i \in ReqIds : Caught(i)
    \/ \E t \in ReqIds : TimerFire(t)
    \/ \E t \in ReqIds : TimerCFDelete(t)
    \/ \E t \in ReqIds : TimerCallFails(t)
    \/ \E t \in ReqIds : TimerResume(t)

SpecRoute == InitRoute /\ [][NextRoute]_vars

---------------------------------------------------------------------------
(* The in-memory variant started on a zone that may already hold a rule,    *)
(* one request at a time                                                    *)

InitZone ==
    /\ variant = "mem" /\ hasStorage = FALSE /\ webhook = FALSE
    /\ kv = << >>
    /\ tickets = {}
    /\ slackSent = 0
    /\ reqs = [i \in ReqIds |-> IdleReq]
    /\ nextReq = 1
    /\ cfRules \in PriorRules
    /\ tempBlocks = << >>
    /\ timers = [i \in ReqIds |-> NoTimer]
    /\ concurrentPost = {}
    /\ lastBlock = [ip \in IPs |-> 0]
    /\ now = 0
    /\ sweep = NoSweep

SpecZone == InitZone /\ [][NextSeq]_vars

----------------------------------------------------------------------------
(* One request of any shape, a null target included, sent to any copy of    *)
(* the handler; the event loop and the collaborators are fair               *)

\* Bodies whose "target" is null: no ip, no service can be read from them
NullTargetBodies == {b \in RouteBodies : b.ip = Absent /\ b.service = Absent}

ReceiveNullTarget(b) ==
    /\ nextReq = 1
    /\ Receive([Body(b.action, b.severity, Absent, Absent, b.block, b.issue, b.description)
                  EXCEPT !.nullTarget = TRUE])

\* An exception that left the async callback reaches nobody in Express 4 (the
\* returned promise is dropped; the request stays open or the process dies
\* with an unhandled rejection); Express 5 passes it to the default error
\* handler, which answers 500. The sources pin no version: both can happen.
FrameworkAnswers(i) ==
    /\ reqs[i].pc = "thrown"
    /\ reqs' = [reqs EXCEPT ![i] = Respond(@, ServerErrorPlain("TypeError"))]
    /\ UNCHANGED <<conf, cron, collab, nextReq, cfRules, tempBlocks, timers, concurrentPost, lastBlock>>

NextLife ==
    \/ NextRoute
    \/ \E b \in NullTargetBodies : ReceiveNullTarget(b)
    \/ \E i \in ReqIds : FrameworkAnswers(i)

SpecLife == InitRoute /\ [][NextLife]_vars

\* Every collaborator call returns or fails
CallSettles(i) ==
    \/ CFPost(i) \/ CFGet(i) \/ CFDelete(i) \/ CreateJiraTicket(i)
    \/ SlackPost(i) \/ KvPut(i) \/ KvDelete(i) \/ CallFails(i)

\* The continuation of a settled await runs: the next statements of the
\* handler when the call returned, its catch block when the call failed
HandlerResumes(i) ==
    \/ MemBlockInstalled(i) \/ MemUnblockListed(i) \/ MemUnblockDeleted(i)
    \/ MemListed(i) \/ MemDrainTicketed(i)
    \/ StorageBlockInstalled(i) \/ StorageBlockStored(i) \/ StorageUnblockListed(i)
    \/ StorageUnblockDeleted(i) \/ StorageUnblockForgotten(i) \/ StorageListed(i)
    \/ IndexBlockInstalled(i) \/ IndexTicketed(i) \/ IndexNotified(i)
    \/ JiraBlockInstalled(i) \/ JiraTicketed(i) \/ JiraNotified(i)
    \/ BasicBlockInstalled(i) \/ BasicUnblockListed(i) \/ BasicUnblockDeleted(i)
    \/ BasicListed(i)
    \/ Caught(i)

LifeFairness ==
    /\ \A i \in ReqIds : WF_vars(CallSettles(i)) /\ WF_vars(HandlerResumes(i))
    /\ TimerFairness

FairLife == SpecLife /\ LifeFairness

----------------------------------------------------------------------------
(* part_001:218-239, POST /cleanup of the storage variant. The handler has  *)
(* no try: a rejected await leaves the async callback as an exception.      *)

IsExpired_orDue(data, t) == t >= data.expires_at

\* part_001:229  Date.now() > data.expires_at
IsExpired(data, t) == t > data.expires_at

\* Everything but the cleanup request stays as it is
SweepOnly == UNCHANGED <<conf, collab, reqs, nextReq, cfRules, tempBlocks, timers,
                         concurrentPost, lastBlock, now>>

\* 218-224: POST /cleanup arrives; without storage it answers "disabled",
\* with storage it asks the iterator of storage.list("blocked:") for a key
CleanupStart ==
    /\ variant = "storage"
    /\ sweep.pc = "idle"          \* one cleanup request in a behaviour
    /\ \A i \in ReqIds : ~InFlight(reqs[i])
    /\ sweep' = IF ~hasStorage
                  THEN [NoSweep EXCEPT !.pc = "done", !.status = "disabled"]
                  ELSE SweepAwait([NoSweep EXCEPT !.kv0 = kv, !.rules0 = cfRules, !.now0 = now],
                                  "kv_list")
    /\ SweepOnly

\* storage.list: the iterator yields a key it has not yielded, or ends
KvListNext ==
    /\ sweep.pc = "kv_list" /\ sweep.wait = "sent"
    /\ LET left == DOMAIN kv \ sweep.seen
       IN IF left = {}
            THEN sweep' = [sweep EXCEPT !.wait = "ok", !.cur = ""]
            ELSE \E k \in left : sweep' = [sweep EXCEPT !.wait = "ok", !.cur = k]
    /\ SweepOnly

\* 226-227, 236-239: the loop takes the key and reads it, or ends and answers
SweepListed ==
    /\ sweep.pc = "kv_list" /\ sweep.wait = "ok"
    /\ sweep' = IF sweep.cur = ""
                  THEN [sweep EXCEPT !.pc = "done", !.wait = "", !.status = "success"]
                  ELSE SweepAwait([sweep EXCEPT !.seen = @ \cup {sweep.cur}], "kv_get")
    /\ SweepOnly

\* storage.get(key)
KvGet ==
    /\ sweep.pc = "kv_get" /\ sweep.wait = "sent"
    /\ sweep.cur \in DOMAIN kv
    /\ sweep' = [sweep EXCEPT !.wait = "ok", !.data = kv[sweep.cur]]
    /\ SweepOnly

\* 227-230: JSON.parse, the comparison with the clock, CF.delete of data.rule_id
SweepGot ==
    /\ sweep.pc = "kv_get" /\ sweep.wait = "ok"
    /\ sweep' = IF IsExpired(sweep.data, now)
                  THEN SweepAwait(sweep, "cf_delete")
                  ELSE SweepAwait(sweep, "kv_list")
    /\ SweepOnly

\* DELETE /firewall/access_rules/rules/{data.rule_id}
SweepCFDelete ==
    /\ sweep.pc = "cf_delete" /\ sweep.wait = "sent"
    /\ cfRules' = {x \in cfRules : x.id # sweep.data.rule_id}
    /\ sweep' = [sweep EXCEPT !.wait = "ok"]
    /\ UNCHANGED <<conf, collab, reqs, nextReq, tempBlocks, timers, concurrentPost, lastBlock, now>>

\* 231: await storage.delete(key)
SweepRuleRemoved ==
    /\ sweep.pc = "cf_delete" /\ sweep.wait = "ok"
    /\ sweep' = SweepAwait(sweep, "kv_delete")
    /\ SweepOnly

\* storage.delete(key)
SweepKvDelete ==
    /\ sweep.pc = "kv_delete" /\ sweep.wait = "sent"
    /\ kv' = Delete(kv, sweep.cur)
    /\ sweep' = [sweep EXCEPT !.wait = "ok"]
    /\ UNCHANGED <<conf, tickets, slackSent, reqs, nextReq, cfRules, tempBlocks, timers,
                   concurrentPost, lastBlock, now>>

\* 232: expired.push(data.ip), and the loop asks for the next key
SweepRecordDeleted ==
    /\ sweep.pc = "kv_delete" /\ sweep.wait = "ok"
    /\ sweep' = SweepAwait([sweep EXCEPT !.expired = @ \cup {sweep.data.ip}], "kv_list")
    /\ SweepOnly

\* An awaited call rejects: with no try around the loop the exception leaves
\* the callback and the handler runs no further statement
SweepCallFails ==
    /\ SweepInFlight /\ sweep.wait = "sent"
    /\ sweep' = [sweep EXCEPT !.pc = "thrown", !.wait = ""]
    /\ SweepOnly

\* Express 5 answers the rejected callback with 500; Express 4 never answers
SweepFrameworkAnswers ==
    /\ sweep.pc = "thrown"
    /\ sweep' = [sweep EXCEPT !.pc = "done", !.status = "error"]
    /\ SweepOnly

\* A minute passes
Tick ==
    /\ now < MaxNow
    /\ now' = now + 1
    /\ UNCHANGED <<conf, collab, reqs, nextReq, cfRules, tempBlocks, timers,
                   concurrentPost, lastBlock, sweep>>

\* Bodies sent to the storage variant: blocks of each duration, and unblocks
StoreBodies ==
    {Body("block_ip", s, ip, Absent, FALSE, TRUE, TRUE) : s \in {"low", "medium", "critical"}, ip \in IPs}
    \cup {Body("unblock_ip", Absent, ip, Absent, FALSE, TRUE, TRUE) : ip \in IPs}

\* One client: it sends its requests to / one after the other, each after
\* the answer to the last one, and then the cleanup request
ReceiveStore ==
    /\ sweep.pc = "idle"
    /\ \A i \in ReqIds : ~InFlight(reqs[i])
    /\ \E body \in StoreBodies : Receive(body)

InitStore ==
    /\ variant = "storage" /\ hasStorage \in BOOLEAN /\ webhook = FALSE
    /\ InitCommon

NextStore ==
    \/ ReceiveStore
    \/ \E i \in ReqIds : CFPost(i)
    \/ \E i \in ReqIds : CFGet(i)
    \/ \E i \in ReqIds : CFDelete(i)
    \/ \E i \in ReqIds : KvPut(i)
    \/ \E i \in ReqIds : KvDelete(i)
    \/ \E i \in ReqIds : CallFails(i)
    \/ \E i \in ReqIds : StorageBlockInstalled(i)
    \/ \E i \in ReqIds : StorageBlockStored(i)
    \/ \E i \in ReqIds : StorageUnblockListed(i)
    \/ \E i \in ReqIds : StorageUnblockDeleted(i)
    \/ \E i \in ReqIds : StorageUnblockForgotten(i)
    \/ \E i \in ReqIds : Caught(i)
    \/ CleanupStart
    \/ KvListNext
    \/ SweepListed
    \/ KvGet
    \/ SweepGot
    \/ SweepCFDelete
    \/ SweepRuleRemoved
    \/ SweepKvDelete
    \/ SweepRecordDeleted
    \/ SweepCallFails
    \/ SweepFrameworkAnswers
    \/ Tick

SpecStore == InitStore /\ [][NextStore]_vars

---------------------------------------------------------------------------
(* Claims *)

TempBlockAnswered(i) ==
    /\ reqs[i].pc = "done" /\ reqs[i].action = "block_ip"
    /\ reqs[i].resp.status = "success" /\ reqs[i].resp.action = "temp_block_ip"

\* C1: in every reachable state each ip has at most one ledger entry (tempBlocks
\* is keyed by ip) and at most one armed expiry timer.
C1_OneLiveTimerPerTarget ==
    \A ip \in IPs : Cardinality(LiveTimers(ip)) <= 1

\* C2: after a sequence of block calls for one ip with no unblock in between,
\* exactly one expiry timer is live for the ip and it is the one the latest
\* call armed, with that call's duration (stated for a latest call that is
\* temporary and whose own timer has not fired yet).
C2_TimerReflectsLatestBlock ==
    \A ip \in IPs :
        LET i == lastBlock[ip]
        IN (i # 0 /\ timers[i].st = "armed") =>
              /\ LiveTimers(ip) = {i}
              /\ timers[i].minutes = getTempBanMinutes(reqs[i].severity)

\* C3: two block requests for the same ip that awaited installBlock together
\* never both leave an armed timer, and once both are answered (and none of
\* their timers has fired, no later call touched the ip) exactly one of the two
\* timers is armed and the ledger entry holds that request's rule id.
C3_ConcurrentBlocksOneTimer ==
    \A a \in ReqIds, b \in ReqIds :
        ({a, b} \in concurrentPost /\ a # b) =>
            /\ ~(timers[a].st = "armed" /\ timers[b].st = "armed")
            /\ ( /\ TempBlockAnswered(a) /\ TempBlockAnswered(b)
                 /\ lastBlock[reqs[a].ip] \in {a, b}
                 /\ {timers[a].st, timers[b].st} \subseteq {"armed", "cancelled"} )
               => \E w \in {a, b} :
                     /\ LiveTimers(reqs[a].ip) = {w}
                     /\ reqs[a].ip \in DOMAIN tempBlocks
                     /\ tempBlocks[reqs[a].ip].rule_id = reqs[w].ruleId

EntryMatches(t) ==
    /\ timers[t].ip \in DOMAIN tempBlocks
    /\ tempBlocks[timers[t].ip].rule_id = timers[t].ruleId

\* C4: a fired expiry handler acts only if the ledger entry of its ip still
\* holds the rule id it captured: otherwise it sends no removeBlock and leaves
\* the ledger alone; when it does act it deletes the entry.
C4_ExpiryGuardedByRuleId ==
    [][\A t \in ReqIds :
          /\ (timers[t].st = "armed" /\ timers'[t].st = "cf_delete") => EntryMatches(t)
          /\ (timers[t].st = "cf_delete" /\ timers'[t].st = "done") =>
                IF EntryMatches(t)
                  THEN timers[t].ip \notin DOMAIN tempBlocks'
                  ELSE tempBlocks' = tempBlocks
      ]_vars


\* Request i is a temporary low-severity block that was answered, the first
\* request of the run to name its ip (so the zone held no rule for it before)
RoundTripBlock(i) ==
    /\ variant = "mem"
    /\ TempBlockAnswered(i) /\ reqs[i].severity = "low"
    /\ \A j \in ReqIds : j < i => reqs[j].ip # reqs[i].ip

\* Request u is an unblock of ip that was received when nothing else was in
\* flight, ran alone and was answered without a collaborator failure
UnblockAnswered(u, ip) ==
    /\ reqs[u].pc = "done" /\ reqs[u].action = "unblock_ip" /\ reqs[u].ip = ip
    /\ reqs[u].solo /\ reqs[u].resp.code # 500

\* C5: block(ip, low) on an ip without a rule, then unblock(ip) before the
\* timer fires: the unblock answers success, the rule is gone, the timer is
\* cancelled and the ledger has no entry for ip; the next unblock(ip) answers
\* not_found.
C5_RoundTrip ==
    \A i \in ReqIds :
        (i + 2 <= MaxReqs /\ RoundTripBlock(i)) =>
            /\ ( /\ UnblockAnswered(i + 1, reqs[i].ip)
                 /\ timers[i].st \in {"armed", "cancelled"} )
               => /\ reqs[i + 1].resp.status = "success"
                  /\ timers[i].st = "cancelled"
                  /\ nextReq = i + 2 =>
                        /\ reqs[i].ip \notin DOMAIN tempBlocks
                        /\ RulesFor(cfRules, reqs[i].ip) = {}
                  /\ UnblockAnswered(i + 2, reqs[i].ip) =>
                        reqs[i + 2].resp.status = "not_found"

C5_RoundTripDone ==
    \E i \in ReqIds :
        /\ i + 2 <= MaxReqs /\ RoundTripBlock(i)
        /\ UnblockAnswered(i + 1, reqs[i].ip) /\ timers[i].st = "cancelled"
        /\ reqs[i + 1].resp.status = "success"
        /\ UnblockAnswered(i + 2, reqs[i].ip)
        /\ reqs[i + 2].resp.status = "not_found"

\* The expiry of timer t has run to its end: its ip has no ledger entry and,
\* if the backend accepted the removal, the rule it captured is gone
Expired(t) ==
    /\ timers[t].st = "done"
    /\ timers[t].ip \notin DOMAIN tempBlocks
    /\ timers[t].wait = "ok" => \A x \in cfRules : x.id # timers[t].ruleId

\* C6: an armed expiry timer that no later request for its ip cancels
\* eventually fires, and its handler removes the rule the block installed
\* (when the backend accepts the removal) and deletes the ledger entry.
C6_ExpiryEventuallyRemoves ==
    \A t \in ReqIds :
        (timers[t].st = "armed") ~> (timers[t].st = "cancelled" \/ Expired(t))

C6_ExpiredUntouched ==
    \E t \in ReqIds :
        /\ Expired(t) /\ timers[t].wait = "ok"
        /\ \A j \in ReqIds : j # t => reqs[j].ip # timers[t].ip


\* A finished block_ip request for an ip with a severity that has no finite duration,
\* in the two copies of part_001
SevereBlockAnswered(i) ==
    /\ variant \in {"mem", "storage"}
    /\ reqs[i].pc = "done"
    /\ reqs[i].action = "block_ip" /\ reqs[i].ip # Absent
    /\ reqs[i].severity \in {"high", "critical"}

RuleInstalledBy(i) ==
    \E rule \in cfRules : rule.id = i /\ rule.ip = reqs[i].ip /\ rule.mode = "block"

NothingScheduledBy(i) ==
    /\ timers[i].st = "none"
    /\ \A ip \in DOMAIN tempBlocks : tempBlocks[ip].timeout # i
    /\ kv = << >>

\* C7 (as amended): a block_ip request with severity high or critical and an ip arms no
\* timer and records no ledger entry or storage record. The storage copy of the handler
\* always asks the backend for a rule, whatever the block flag; the in-memory copy asks
\* only when the block flag is true and otherwise answers skipped without any call.
\* When the backend call succeeds the rule is installed and the answer is
\* 200 success / block_ip / permanent: true; when it fails the answer is 500.
C7_SevereBlockPermanent ==
    \A i \in ReqIds : SevereBlockAnswered(i) =>
        LET r == reqs[i]
        IN /\ NothingScheduledBy(i)
           /\ IF variant = "storage" \/ r.block = TRUE
                THEN /\ r.calls = <<"cf_post">>
                     /\ r.resp.code \in {200, 500}
                     /\ r.resp.code = 200 =>
                          /\ r.resp.status = "success" /\ r.resp.action = "block_ip"
                          /\ r.resp.permanent = TRUE
                          /\ RuleInstalledBy(i)
                     /\ r.resp.code = 500 => ~RuleInstalledBy(i)
                ELSE /\ r.calls = << >>
                     /\ r.resp.code = 200 /\ r.resp.status = "skipped"
                     /\ ~RuleInstalledBy(i)

\* C7 witness: the storage copy answered a critical block without the block flag as permanent
C7_PermanentWithoutFlag ==
    \E i \in ReqIds :
        /\ SevereBlockAnswered(i) /\ variant = "storage"
        /\ reqs[i].severity = "critical" /\ reqs[i].block = FALSE
        /\ reqs[i].resp.permanent = TRUE /\ RuleInstalledBy(i)

\* C7 as stated: unless the backend call fails, every such request installs a rule and
\* answers success with permanent: true, whether or not the block flag is set
C7_AlwaysInstalls ==
    \A i \in ReqIds : (SevereBlockAnswered(i) /\ reqs[i].resp.code # 500) =>
        /\ reqs[i].resp.status = "success" /\ reqs[i].resp.permanent = TRUE
        /\ RuleInstalledBy(i)
        /\ NothingScheduledBy(i)

ServiceAliases == {"restart_service", "scale_service", "rollback_service", "drain_service"}
NotifyAliases == {"notify_team", "trigger_alert"}

\* The canonical name each alias stands for
CanonicalOf(a) ==
    IF a = "restart_service" THEN "restart"
    ELSE IF a = "scale_service" THEN "scale"
    ELSE IF a = "rollback_service" THEN "rollback"
    ELSE IF a = "drain_service" THEN "drain"
    ELSE IF a \in NotifyAliases THEN "notify"
    ELSE IF a = "block_ip" THEN "block"
    ELSE IF a = "unblock_ip" THEN "unblock"
    ELSE a

Normalized(i) == variant \in {"index", "jira"} /\ reqs[i].nact # ""

\* C8 (as amended): index.js's normalizeAction sends every alias of its table to the
\* canonical action it stands for, which is one of the eight, and leaves each of the eight
\* canonical actions unchanged. jira.js's normalizeAction does the same for its service and
\* notify aliases and for seven canonical actions, but sends block to block_ip, the name
\* its dispatch tests. Both are idempotent on every input.
C8_NormalizeCanonical ==
    \A i \in ReqIds : Normalized(i) =>
        LET a == reqs[i].action
            n == reqs[i].nact
        IN IF variant = "index"
             THEN /\ a \in DOMAIN IndexAliasMap => n = CanonicalOf(a) /\ n \in CanonicalActions
                  /\ a \in CanonicalActions => n = a
                  /\ normalizeAction(n) = n
             ELSE /\ a \in ServiceAliases \cup NotifyAliases =>
                        n = CanonicalOf(a) /\ n \in CanonicalActions
                  /\ a \in CanonicalActions \ {"block"} => n = a
                  /\ a = "block" => n = "block_ip"
                  /\ normalizeAction_jira(n) = n

\* C8 witness: index.js normalized the alias trigger_alert to notify
C8_AliasNormalized ==
    \E i \in ReqIds :
        /\ variant = "index" /\ reqs[i].pc = "done"
        /\ reqs[i].action = "trigger_alert" /\ reqs[i].nact = "notify"

\* C8 as stated: in both normalizers every alias goes to its canonical action and every
\* canonical action to itself
C8_EveryCanonicalFixed ==
    \A i \in ReqIds : Normalized(i) =>
        LET a == reqs[i].action
            n == reqs[i].nact
        IN /\ a \in ServiceAliases \cup NotifyAliases => n = CanonicalOf(a)
           /\ a \in CanonicalActions => n = a

KnownActions == CanonicalActions \cup DOMAIN IndexAliasMap \cup DOMAIN JiraAliasMap

UnknownActionAnswered(i) ==
    /\ reqs[i].pc = "done"
    /\ reqs[i].action # Absent /\ reqs[i].action \notin KnownActions

\* No backend rule, ledger entry, timer, ticket, notification or storage record was made
NothingTouched ==
    /\ cfRules \in PriorRules
    /\ tempBlocks = << >>
    /\ \A t \in ReqIds : timers[t].st = "none"
    /\ tickets = {} /\ slackSent = 0 /\ kv = << >>

C10_CanonicalRouted ==
    \A i \in ReqIds :
        LET r == reqs[i]
            c == CanonicalOf(r.action)
        IN (/\ variant = "index" /\ webhook
            /\ r.pc = "done"
            /\ r.action \in CanonicalActions \cup DOMAIN IndexAliasMap
            /\ r.severity # Absent /\ r.issue /\ r.description
            /\ c \in {"block", "unblock"} => r.ip # Absent
            /\ c \in ApprovalActions => r.service # Absent)
           => /\ r.resp.error # "Unsupported action"
              /\ r.calls # << >>
              /\ c \in {"block", "unblock", "list_blocked"} => r.calls[1] \in {"cf_post", "cf_get"}
              /\ c \in ApprovalActions => r.calls[1] = "jira"
              /\ c = "notify" => r.calls[1] = "slack"


\* A finished request for restart, scale, rollback or drain, by its canonical name, to
\* index.js or to the in-memory copy of part_001
ApprovalAnswered(i) ==
    /\ variant \in {"index", "mem"}
    /\ reqs[i].pc = "done"
    /\ reqs[i].action \in ApprovalActions

TicketOf(i) == {tk \in tickets : tk.key = i}

\* C11: a request for restart, scale, rollback or drain with target.service (and, for
\* index.js, severity, issue and description), whose ticketing call does not fail, makes
\* exactly one createJiraTicket call and no other, is answered pending_approval with the
\* new ticket's key, and leaves the backend rules and the ledger as they were.
C11_ApprovalOnlyTickets ==
    \A i \in ReqIds :
        (/\ ApprovalAnswered(i)
         /\ reqs[i].service # Absent
         /\ variant = "index" => reqs[i].severity # Absent /\ reqs[i].issue /\ reqs[i].description
         /\ reqs[i].resp.code # 500)
        => /\ reqs[i].calls = <<"jira">>
           /\ reqs[i].resp.status = "pending_approval"
           /\ reqs[i].resp.jira_ticket # 0
           /\ \E tk \in TicketOf(i) : reqs[i].resp.jira_ticket = tk.key
           /\ cfRules \in PriorRules /\ tempBlocks = << >>

\* C12: no request for restart, scale, rollback or drain is answered success or
\* pending_approval unless its ticket was created, and one whose createJiraTicket call
\* failed is answered 500 with that failure.
C12_NoApprovalWithoutTicket ==
    \A i \in ReqIds : ApprovalAnswered(i) =>
        /\ reqs[i].resp.status \in {"success", "pending_approval"} => TicketOf(i) # {}
        /\ (reqs[i].calls = <<"jira">> /\ TicketOf(i) = {}) =>
              reqs[i].resp.code = 500 /\ reqs[i].resp.error = "jira"

\* The target field the canonical action of a request needs is missing
TargetMissing(r) ==
    \/ CanonicalOf(r.action) \in {"block", "unblock"} /\ r.ip = Absent
    \/ CanonicalOf(r.action) \in ApprovalActions /\ r.service = Absent

\* C13: a request to index.js or to the in-memory copy of part_001 whose action needs
\* target.ip (block, unblock) or target.service (restart, scale, rollback, drain) and
\* lacks it is answered with a 4xx, with no collaborator called and nothing changed.
C13_MissingTargetRejected ==
    \A i \in ReqIds :
        (variant \in {"index", "mem"} /\ reqs[i].pc = "done" /\ TargetMissing(reqs[i]))
        => /\ reqs[i].resp.code \in 400..499
           /\ reqs[i].calls = << >>
           /\ NothingTouched


\* An unblock_ip request holds the rule list the backend answered, and no rule of it is for
\* the request's ip
NoRuleListed(i) ==
    /\ reqs[i].action = "unblock_ip"
    /\ reqs[i].pc = "cf_get" /\ reqs[i].wait = "ok"
    /\ \A rule \in reqs[i].list : rule.ip # reqs[i].ip

\* C14: when the rule list the backend returned holds no rule for the ip, the unblock
\* handler answers 200 with status not_found, has made no call but the list, and leaves
\* the backend's rules, the ledger and every timer as they were.
C14_UnblockNotFound ==
    [][\A i \in ReqIds : (NoRuleListed(i) /\ reqs'[i] # reqs[i]) =>
          /\ reqs'[i].pc = "done"
          /\ reqs'[i].resp.code = 200 /\ reqs'[i].resp.status = "not_found"
          /\ reqs'[i].calls = <<"cf_get">>
          /\ cfRules' = cfRules /\ tempBlocks' = tempBlocks /\ timers' = timers]_vars

\* C14 witness: an unblock was answered not_found while another target's entry and timer live
C14_NotFoundBesideLiveEntry ==
    \E i \in ReqIds :
        /\ reqs[i].pc = "done" /\ reqs[i].action = "unblock_ip"
        /\ reqs[i].resp.status = "not_found"
        /\ \E ip \in DOMAIN tempBlocks :
              ip # reqs[i].ip /\ timers[tempBlocks[ip].timeout].st = "armed"


BackendCalls == {"cf_post", "cf_get", "cf_delete"}

\* A block or unblock request whose backend call was rejected and whose handler has not
\* run since
BackendCallRejected(i) ==
    /\ reqs[i].action \in {"block_ip", "unblock_ip"}
    /\ reqs[i].pc \in BackendCalls /\ reqs[i].wait = "err"

OncePerCall(calls) ==
    \A j, k \in DOMAIN calls : (calls[j] = calls[k] /\ calls[j] \in BackendCalls) => j = k

\* C15: when a backend call of a block or unblock request is rejected, the next step of its
\* handler answers 500 with status error and the detail of the rejected call, and sends
\* no further call; no request ever sends the same backend operation twice.
C15_BackendFailurePropagates ==
    [][\A i \in ReqIds :
          /\ (BackendCallRejected(i) /\ reqs'[i] # reqs[i]) =>
                /\ reqs'[i].pc = "done"
                /\ reqs'[i].resp.code = 500 /\ reqs'[i].resp.status = "error"
                /\ reqs'[i].resp.error = reqs[i].pc
                /\ reqs'[i].calls = reqs[i].calls
          /\ OncePerCall(reqs'[i].calls)]_vars

\* C15 witness: an unblock listed the rules, its delete was rejected, and it was answered 500
C15_DeleteFailureAnswered ==
    \E i \in ReqIds :
        /\ reqs[i].pc = "done" /\ reqs[i].action = "unblock_ip"
        /\ reqs[i].calls = <<"cf_get", "cf_delete">>
        /\ reqs[i].resp.code = 500 /\ reqs[i].resp.error = "cf_delete"


\* A block_ip request answered success by a copy of the handler that can keep a temporary
\* block (the in-memory copy, or the storage copy with its storage bound)
BlockSucceeded(i) ==
    /\ variant = "mem" \/ (variant = "storage" /\ hasStorage)
    /\ reqs[i].pc = "done" /\ reqs[i].action = "block_ip"
    /\ reqs[i].resp.status = "success"

\* C16: getTempBanMinutes gives 1 for low, 2 for medium and 0 for high and critical, and
\* the handler applies it: a successful block of severity low is answered as a temporary
\* block of 1 minute, one of severity medium as a temporary block of 2 minutes (with a
\* timer of that duration in the in-memory copy), and one of severity high or critical
\* as permanent, with no duration and no timer.
C16_BlockDurationBySeverity ==
    /\ \A sev \in Severities : getTempBanMinutes(sev) \in {0, 1, 2}
    /\ \A i \in ReqIds : BlockSucceeded(i) =>
          LET r == reqs[i]
              expected == IF r.severity = "low" THEN 1 ELSE IF r.severity = "medium" THEN 2 ELSE 0
          IN /\ r.resp.duration_minutes = expected
             /\ IF r.severity \in {"low", "medium"}
                  THEN /\ r.resp.action = "temp_block_ip" /\ ~r.resp.permanent
                       /\ variant = "mem" => timers[i].st # "none" /\ timers[i].minutes = expected
                       /\ variant = "storage" => \E ip \in DOMAIN kv : kv[ip].minutes = expected
                  ELSE /\ r.resp.action = "block_ip" /\ r.resp.permanent
                       /\ timers[i].st = "none" /\ kv = << >>

\* C16 witness: a block of severity medium was answered with 2 minutes and its timer is armed
C16_MediumTwoMinutes ==
    \E i \in ReqIds :
        /\ BlockSucceeded(i) /\ variant = "mem" /\ reqs[i].severity = "medium"
        /\ reqs[i].resp.duration_minutes = 2
        /\ timers[i].st = "armed" /\ timers[i].minutes = 2


\* C17: every ticket that index.js or the in-memory copy of part_001 creates for restart,
\* scale, rollback or drain has priority Highest for severity critical, High for high,
\* Medium for medium and Low for anything else.
C17_TicketPriorityBySeverity ==
    \A tk \in tickets :
        LET sev == reqs[tk.key].severity
        IN variant \in {"index", "mem"} =>
             tk.fields.priority =
                 IF sev = "critical" THEN "Highest"
                 ELSE IF sev = "high" THEN "High"
                 ELSE IF sev = "medium" THEN "Medium"
                 ELSE "Low"


\* The expiry callback of timer t sent its CF.delete, the call was rejected, and the
\* callback has not run since
ExpiryDeleteRejected(t) == timers[t].st = "cf_delete" /\ timers[t].wait = "err"

\* C18: when the CF.delete of an expiry callback is rejected, the callback's next step
\* still deletes the ledger entry of its ip and ends; it changes no request and no
\* response, and does not touch the backend again.
C18_ExpiryFailureSwallowed ==
    [][\A t \in ReqIds : (ExpiryDeleteRejected(t) /\ timers'[t] # timers[t]) =>
          /\ timers'[t].st = "done"
          /\ timers[t].ip \notin DOMAIN tempBlocks'
          /\ reqs' = reqs /\ nextReq' = nextReq
          /\ cfRules' = cfRules]_vars

\* C18 witness: an expiry callback ended after its delete was rejected, and a later block
\* of the same ip was installed, answered and is in the ledger
C18_ServedAfterFailedExpiry ==
    \E t, j \in ReqIds :
        /\ timers[t].st = "done" /\ timers[t].wait = "err"
        /\ j > t /\ reqs[j].pc = "done" /\ reqs[j].resp.code = 200
        /\ reqs[j].ip = timers[t].ip
        /\ timers[t].ip \in DOMAIN tempBlocks /\ tempBlocks[timers[t].ip].timeout = j


\* The step in which the handler of request i, its backend call resolved, replaces (a
\* temporary block) or removes (an unblock) the ledger entry its ip already has
SupersedesEntry(i) ==
    /\ reqs[i].wait = "ok" /\ reqs'[i].pc = "done"
    /\ reqs[i].ip \in DOMAIN tempBlocks
    /\ \/ reqs[i].pc = "cf_post" /\ getTempBanMinutes(reqs[i].severity) > 0
       \/ reqs[i].pc = "cf_delete"

\* C19: when a temporary block or an unblock finds a ledger entry for its ip, the entry's
\* timer is cancelled in that step (after it the timer is neither armed nor running its
\* callback), and a cancelled timer never changes again: it sends no CF.delete and
\* deletes no ledger entry.
C19_SupersededTimerCancelled ==
    [][/\ \A i \in ReqIds : SupersedesEntry(i) =>
             timers'[tempBlocks[reqs[i].ip].timeout].st \notin {"armed", "cf_delete"}
       /\ \A t \in ReqIds : timers[t].st = "cancelled" => timers'[t] = timers[t]]_vars


\* The rules a step removes from the backend
RemovedRules == cfRules \ cfRules'

\* An unblock request has sent the DELETE of rule x
UnblockRemoves(x) ==
    \E i \in ReqIds :
        /\ reqs[i].action = "unblock_ip"
        /\ reqs[i].pc = "cf_delete" /\ reqs[i].wait = "sent" /\ reqs[i].target = x.id

\* The callback of rule x's own timer has sent the DELETE of rule x
OwnTimerRemoves(x) ==
    \E t \in ReqIds : timers[t].st = "cf_delete" /\ timers[t].wait = "sent" /\ timers[t].ruleId = x.id

\* Rule x was installed by a temporary block and the ledger entry of its ip now holds
\* another rule's id
Superseded(x) ==
    /\ x.id \in ReqIds /\ timers[x.id].st # "none"
    /\ x.ip \in DOMAIN tempBlocks /\ tempBlocks[x.ip].rule_id # x.id

\* C20 (as amended): a temporary block of an ip that has a ledger entry replaces the
\* entry's rule_id by the new rule's id and removes no rule from the backend. A timer
\* callback removes only the rule whose id it captured. A rule is removed only by an
\* unblock or by its own timer's callback; a superseded rule whose timer was cancelled
\* when the new block was installed is removed only by an unblock, while one whose timer
\* had already fired is still removed by that timer's callback.
C20_SupersededRuleStays ==
    [][/\ \A i \in ReqIds : (SupersedesEntry(i) /\ reqs[i].pc = "cf_post") =>
             /\ tempBlocks'[reqs[i].ip].rule_id = reqs[i].ruleId
             /\ tempBlocks[reqs[i].ip].rule_id # reqs[i].ruleId
             /\ cfRules' = cfRules
       /\ \A t \in ReqIds : (timers[t].st = "cf_delete" /\ timers'[t] # timers[t]) =>
             \A x \in RemovedRules : x.id = timers[t].ruleId
       /\ \A x \in RemovedRules :
             /\ UnblockRemoves(x) \/ OwnTimerRemoves(x)
             /\ (x.id \in ReqIds /\ timers[x.id].st = "cancelled") => UnblockRemoves(x)]_vars

\* C20 witness: the ip was blocked twice, the first timer was cancelled, the second timer
\* fired and removed its rule, and the first rule is still in the backend
C20_OldRuleOutlivesNewTimer ==
    \E a, b \in ReqIds :
        /\ a # b /\ timers[a].ip = timers[b].ip
        /\ timers[a].st = "cancelled" /\ timers[b].st = "done" /\ timers[b].wait = "ok"
        /\ \E x \in cfRules : x.id = timers[a].ruleId
        /\ \A x \in cfRules : x.id # timers[b].ruleId

\* C20 as stated: a superseded rule is removed from the backend only by an unblock
C20_OnlyUnblockRemovesSuperseded ==
    [][\A x \in RemovedRules : Superseded(x) => UnblockRemoves(x)]_vars


\* An unblock_ip request holds the rule list the backend answered, with a rule for its ip
RuleListed(i) ==
    /\ reqs[i].action = "unblock_ip"
    /\ reqs[i].pc = "cf_get" /\ reqs[i].wait = "ok"
    /\ \E rule \in reqs[i].list : rule.ip = reqs[i].ip

\* The DELETE an unblock_ip request sent has resolved
UnblockRuleRemoved(i) ==
    /\ reqs[i].action = "unblock_ip"
    /\ reqs[i].pc = "cf_delete" /\ reqs[i].wait = "ok"

\* C21: when the rule list the backend returned holds a rule for the ip, the unblock
\* handler sends the DELETE of such a rule whether or not the ledger has an entry for the
\* ip; once the DELETE has resolved it answers success, and it cancels the timer and
\* deletes the ledger entry of the ip if there is one and changes neither otherwise.
C21_UnblockFollowsBackend ==
    [][\A i \in ReqIds :
          /\ (RuleListed(i) /\ reqs'[i] # reqs[i]) =>
                /\ reqs'[i].pc = "cf_delete" /\ reqs'[i].wait = "sent"
                /\ \E rule \in reqs[i].list : rule.ip = reqs[i].ip /\ reqs'[i].target = rule.id
                /\ tempBlocks' = tempBlocks /\ timers' = timers
          /\ (UnblockRuleRemoved(i) /\ reqs'[i] # reqs[i]) =>
                /\ reqs'[i].pc = "done"
                /\ reqs'[i].resp.code = 200 /\ reqs'[i].resp.status = "success"
                /\ reqs[i].ip \notin DOMAIN tempBlocks'
                /\ IF reqs[i].ip \in DOMAIN tempBlocks
                     THEN timers'[tempBlocks[reqs[i].ip].timeout].st # "armed"
                     ELSE tempBlocks' = tempBlocks /\ timers' = timers]_vars

\* C21 witness: an ip blocked permanently, which never had a ledger entry, was unblocked
C21_UnblockedWithoutEntry ==
    \E b, u \in ReqIds :
        /\ b < u /\ reqs[b].ip = reqs[u].ip
        /\ reqs[b].pc = "done" /\ reqs[b].resp.permanent
        /\ reqs[u].pc = "done" /\ reqs[u].action = "unblock_ip"
        /\ reqs[u].resp.status = "success" /\ reqs[u].target = b
        /\ \A t \in ReqIds : timers[t].ip # reqs[u].ip


\* A list_blocked request holds the rule list the backend answered
RulesListed(i) ==
    /\ reqs[i].action = "list_blocked"
    /\ reqs[i].pc = "cf_get" /\ reqs[i].wait = "ok"

\* C22: list_blocked answers success with exactly the ips of the rules of mode block in
\* the list the backend returned, whatever the ledger holds, after that one call only;
\* no step of a list_blocked request changes the ledger, a timer or the backend's rules.
C22_ListBlockedFromBackend ==
    [][\A i \in ReqIds :
          /\ (RulesListed(i) /\ reqs'[i] # reqs[i]) =>
                /\ reqs'[i].pc = "done"
                /\ reqs'[i].resp.code = 200 /\ reqs'[i].resp.status = "success"
                /\ \A ip \in IPs : ip \in reqs'[i].resp.ips <=>
                      \E x \in reqs[i].list : x.ip = ip /\ x.mode = "block"
                /\ reqs'[i].calls = <<"cf_get">>
          /\ (reqs'[i].action = "list_blocked" /\ reqs'[i] # reqs[i]) =>
                tempBlocks' = tempBlocks /\ timers' = timers /\ cfRules' = cfRules]_vars

\* C22 witness: the list held a challenge rule for one ip and a block rule for another, the
\* answer names only the second, and the ledger holds no entry for it
C22_ChallengeRuleNotListed ==
    \E i \in ReqIds :
        /\ reqs[i].pc = "done" /\ reqs[i].action = "list_blocked"
        /\ \E x, y \in reqs[i].list :
              /\ x.mode = "challenge" /\ y.mode = "block" /\ x.ip # y.ip
              /\ reqs[i].resp.ips = {y.ip}
              /\ y.ip \notin DOMAIN tempBlocks


\* The step in which a block_ip request with an ip arrives at the in-memory copy
GatedBlockArrives(i) ==
    /\ variant = "mem"
    /\ reqs[i].pc = "idle" /\ reqs'[i].pc # "idle"
    /\ reqs'[i].action = "block_ip" /\ reqs'[i].ip # Absent

\* C23: in the in-memory copy a block_ip request whose block flag is not true and whose
\* severity is neither low nor medium is answered 200 skipped on arrival, with no call
\* made and the backend's rules, the ledger and the timers unchanged; with the flag
\* true or severity low or medium the handler sends the CF.post.
C23_GateSkipsUnflaggedSevere ==
    [][\A i \in ReqIds : GatedBlockArrives(i) =>
          IF reqs'[i].block = TRUE \/ reqs'[i].severity \in {"low", "medium"}
            THEN /\ reqs'[i].pc = "cf_post" /\ reqs'[i].wait = "sent"
                 /\ reqs'[i].calls = <<"cf_post">>
            ELSE /\ reqs'[i].pc = "done"
                 /\ reqs'[i].resp.code = 200 /\ reqs'[i].resp.status = "skipped"
                 /\ reqs'[i].calls = << >>
                 /\ cfRules' = cfRules /\ tempBlocks' = tempBlocks /\ timers' = timers]_vars

\* C23 witness: a block without severity and without the flag was answered skipped
C23_UnknownSeveritySkipped ==
    \E i \in ReqIds :
        /\ variant = "mem" /\ reqs[i].pc = "done"
        /\ reqs[i].action = "block_ip" /\ reqs[i].ip # Absent
        /\ reqs[i].severity = Absent /\ reqs[i].block = FALSE
        /\ reqs[i].resp.status = "skipped" /\ reqs[i].calls = << >>


\* A block_ip request that either copy of part_001 answered success
BlockAnswered(i) ==
    /\ variant \in {"mem", "storage"}
    /\ reqs[i].pc = "done" /\ reqs[i].action = "block_ip"
    /\ reqs[i].resp.status = "success"

\* The duration the severity stands for: 0 is none
DurationOf(severity) ==
    IF severity = "low" THEN 1 ELSE IF severity = "medium" THEN 2 ELSE 0

\* An expiry of the rule request i installed is scheduled after `minutes`: a timer of the
\* in-memory copy, or a storage record of the storage copy
ExpiryScheduled(i, minutes) ==
    IF variant = "mem"
      THEN /\ timers[i].st # "none" /\ timers[i].ip = reqs[i].ip
           /\ timers[i].ruleId = reqs[i].ruleId /\ timers[i].minutes = minutes
      ELSE /\ reqs[i].ip \in DOMAIN kv
           /\ kv[reqs[i].ip].rule_id = reqs[i].ruleId /\ kv[reqs[i].ip].minutes = minutes

\* C24 (as amended): a successful block is answered temp_block_ip, with the duration of its
\* severity (from which unblock_at is computed), exactly when the severity has a duration
\* and the copy can keep an expiry (the in-memory copy, or the storage copy with storage
\* bound), and then an expiry of the installed rule is scheduled after that duration.
\* Otherwise it is answered block_ip with permanent: true and nothing is scheduled: for
\* high and critical, and in the storage copy without storage for every severity.
C24_TempOrPermanentAnswer ==
    \A i \in ReqIds : BlockAnswered(i) =>
        LET r == reqs[i]
            d == DurationOf(r.severity)
        IN IF d > 0 /\ (variant = "mem" \/ hasStorage)
             THEN /\ r.resp.action = "temp_block_ip" /\ ~r.resp.permanent
                  /\ r.resp.duration_minutes = d
                  /\ ExpiryScheduled(i, d)
             ELSE /\ r.resp.action = "block_ip" /\ r.resp.permanent
                  /\ r.resp.duration_minutes = 0
                  /\ timers[i].st = "none" /\ kv = << >>

\* C24 witness: the storage copy answered a low block as temporary and stored its expiry
C24_TemporaryStored ==
    \E i \in ReqIds :
        /\ BlockAnswered(i) /\ variant = "storage" /\ reqs[i].severity = "low"
        /\ reqs[i].resp.action = "temp_block_ip"
        /\ ExpiryScheduled(i, 1)

\* C24 as stated: the answer is temporary exactly when the severity has a duration and
\* permanent exactly when it has none
C24_AnswerBySeverityAlone ==
    \A i \in ReqIds : BlockAnswered(i) =>
        /\ reqs[i].resp.action = "temp_block_ip" <=> DurationOf(reqs[i].severity) > 0
        /\ reqs[i].resp.permanent <=> DurationOf(reqs[i].severity) = 0


\* A finished request whose body had no severity
NoSeverityAnswered(i) == reqs[i].pc = "done" /\ reqs[i].severity = Absent

\* C25 (as amended): no copy of the handler takes a missing severity for medium. index.js
\* rejects the request with 400 before any call. Both copies of part_001 take it for a
\* severity without duration: a block is never temporary (the in-memory copy skips it
\* unless the block flag is true), and the drain ticket of the in-memory copy gets
\* priority High. A ticket of jira.js gets priority Low.
C25_MissingSeverityNotMedium ==
    /\ \A i \in ReqIds : NoSeverityAnswered(i) =>
          LET r == reqs[i]
          IN /\ variant = "index" =>
                   /\ r.resp.code = 400 /\ r.resp.error = "Missing required fields"
                   /\ r.calls = << >>
             /\ (variant \in {"mem", "storage"} /\ r.action = "block_ip" /\ r.ip # Absent) =>
                   /\ r.resp.action # "temp_block_ip" /\ r.resp.duration_minutes = 0
                   /\ timers[i].st = "none" /\ kv = << >>
                   /\ r.resp.status = "success" => r.resp.permanent
                   /\ (variant = "mem" /\ r.block = FALSE) => r.resp.status = "skipped"
    /\ \A tk \in tickets : reqs[tk.key].severity = Absent =>
          /\ variant # "index"
          /\ variant = "mem" => tk.fields.priority = "High"
          /\ variant = "jira" => tk.fields.priority = "Low"

\* C25 witness: the in-memory copy answered a flagged block without severity as permanent
C25_NoSeverityPermanent ==
    \E i \in ReqIds :
        /\ NoSeverityAnswered(i) /\ variant = "mem"
        /\ reqs[i].action = "block_ip" /\ reqs[i].block = TRUE
        /\ reqs[i].resp.status = "success" /\ reqs[i].resp.permanent

\* C25 as stated, for index.js and the copies of part_001: a successful block without
\* severity gets the duration of medium, and a ticket for a request without severity gets
\* priority Medium
C25_MissingSeverityIsMedium ==
    /\ \A i \in ReqIds :
          (/\ NoSeverityAnswered(i) /\ variant \in {"mem", "storage"}
           /\ reqs[i].action = "block_ip" /\ reqs[i].resp.status = "success")
          => reqs[i].resp.duration_minutes = 2
    /\ \A tk \in tickets :
          (variant \in {"index", "mem"} /\ reqs[tk.key].severity = Absent)
          => tk.fields.priority = "Medium"

----------------------------------------------------------------------------
(* C26 *)

\* A request the handler has received and that waits for no collaborator:
\* every call it sent has returned or failed, or it sent none
Unanswered(i) == reqs[i].pc \notin {"idle", "done"} /\ reqs[i].wait # "sent"

\* C26: every request to index.js or to the in-memory handler of part_001
\* reaches its one terminal response: once received, and once the collaborator
\* calls it sent have returned or failed, it is answered; it never stays
\* unanswered.
C26_EveryRequestAnswered ==
    \A i \in ReqIds :
        (variant \in {"index", "mem"} /\ Unanswered(i)) ~> (reqs[i].pc = "done")

----------------------------------------------------------------------------
(* C27 *)

\* A request the running copy routes to the notification branch, answered
NotifyAnswered(i) ==
    /\ reqs[i].pc = "done"
    /\ \/ variant = "index" /\ IndexRequiredPresent(reqs[i]) /\ ~reqs[i].nullTarget
          /\ reqs[i].nact = "notify"
       \/ variant = "mem" /\ ~reqs[i].nullTarget /\ reqs[i].action = "notify"

\* C27: a notify request answered by index.js or by the in-memory handler of
\* part_001 says success only after the notification send was invoked and
\* returned; with no channel configured, or a send that failed, it ends in a
\* server error.
C27_NotifySuccessAfterSend ==
    \A i \in ReqIds :
        NotifyAnswered(i) =>
            /\ reqs[i].resp.code = 200 =>
                  reqs[i].calls = <<"slack">> /\ slackSent >= 1
            /\ (~webhook \/ slackSent = 0) => reqs[i].resp.code = 500

----------------------------------------------------------------------------
(* C28 *)

\* The ledger entry of ip, as a set: empty when the ledger holds none
EntryOf(tb, ip) == IF ip \in DOMAIN tb THEN {tb[ip]} ELSE {}

\* The targets whose ledger entry or whose timer this step changes
TouchedTargets ==
    {ip \in IPs :
        \/ EntryOf(tempBlocks', ip) # EntryOf(tempBlocks, ip)
        \/ \E t \in ReqIds :
              /\ timers'[t] # timers[t]
              /\ timers[t].ip = ip \/ timers'[t].ip = ip}

\* The targets of the requests that take this step
ActingTargets == {reqs'[i].ip : i \in {j \in ReqIds : reqs'[j] # reqs[j]}}

\* C28: under any interleaving of requests and timer callbacks, a step of a
\* block, an unblock or an expiry changes the ledger entry and the timers of
\* one target at most, and that target is the one the request acting in the
\* step names: the entry and the timers of every other target stay as they
\* were.
C28_OtherTargetsUntouched ==
    [][/\ Cardinality(TouchedTargets) <= 1
       /\ reqs' # reqs => TouchedTargets \subseteq ActingTargets]_vars

\* C28 witness: both targets were blocked temporarily, the first was unblocked
\* afterwards, and the second still has its entry and its armed timer
C28_NeighbourKeepsTimer ==
    \E i, j \in ReqIds :
        /\ j < i
        /\ reqs[i].pc = "done" /\ reqs[i].action = "unblock_ip"
        /\ reqs[i].resp.status = "success"
        /\ reqs[i].ip \notin DOMAIN tempBlocks
        /\ \E k \in ReqIds : timers[k].ip = reqs[i].ip /\ timers[k].st = "cancelled"
        /\ TempBlockAnswered(j) /\ reqs[j].ip # reqs[i].ip
        /\ reqs[j].ip \in DOMAIN tempBlocks
        /\ tempBlocks[reqs[j].ip] = [rule_id |-> reqs[j].ruleId, timeout |-> j]
        /\ timers[j].st = "armed"

----------------------------------------------------------------------------
(* C29 *)

\* The body lacks one of the four fields index.js requires
LacksRequired(r) ==
    r.action = Absent \/ r.severity = Absent \/ ~r.issue \/ ~r.description

\* C29: index.js answers every request that lacks action, severity, issue or
\* description with a client error, whatever its action (notify and unknown
\* names included) and whatever its target: the action was not normalized, no
\* collaborator was called and nothing was changed.
C29_IndexRejectsIncomplete ==
    \A i \in ReqIds :
        (variant = "index" /\ reqs[i].pc # "idle" /\ LacksRequired(reqs[i])) =>
            /\ reqs[i].pc = "done"
            /\ reqs[i].resp.code = 400
            /\ reqs[i].nact = ""
            /\ reqs[i].calls = << >>
            /\ NothingTouched

\* C29 witness: index.js, with a webhook configured, rejected a notify request
\* that carries issue and description but no severity
C29_NotifyWithoutSeverityRejected ==
    \E i \in ReqIds :
        /\ variant = "index" /\ webhook
        /\ reqs[i].action = "notify" /\ reqs[i].severity = Absent
        /\ reqs[i].issue /\ reqs[i].description
        /\ reqs[i].pc = "done" /\ reqs[i].resp.code = 400
        /\ slackSent = 0

----------------------------------------------------------------------------
(* C30 *)

\* This step changes the ledger or a timer
LedgerChanged == tempBlocks' # tempBlocks \/ timers' # timers

\* Request i was answered with a server error after a backend call failed
FailedOn(i, action) ==
    /\ reqs[i].pc = "done" /\ reqs[i].action = action
    /\ reqs[i].resp.code = 500

\* C30: in the in-memory handler of part_001, under any interleaving, the only
\* steps of a request that change the ledger or a timer are the ones that
\* answer 200 after the backend accepted the call; receiving a request, a
\* failing backend call and the catch block change neither. So a block or an
\* unblock that ends in a server error has left the entry and the timer of
\* its target as they were: the failed block armed no timer and owns no
\* entry, the failed unblock cancelled none.
C30_FailedCallLeavesLedger ==
    [][/\ (reqs' # reqs /\ LedgerChanged) =>
             \E i \in ReqIds :
                 /\ reqs[i].pc # "done" /\ reqs[i].wait = "ok"
                 /\ reqs'[i].pc = "done" /\ reqs'[i].resp.code = 200
       /\ \A i \in ReqIds :
             (reqs'[i].pc = "done" /\ reqs'[i].resp.code = 500) =>
                 /\ timers'[i].st = "none"
                 /\ \A ip \in DOMAIN tempBlocks' : tempBlocks'[ip].timeout # i]_vars

\* C30 witness: a temporary block is in the ledger with its timer armed; an
\* unblock of the same ip failed on the backend's DELETE and a later block of
\* the same ip failed on the backend's POST; the entry and the timer are still
\* those of the first block
C30_EntrySurvivesFailures ==
    \E b, u, f \in ReqIds :
        /\ b < u /\ b < f
        /\ TempBlockAnswered(b)
        /\ FailedOn(u, "unblock_ip") /\ reqs[u].ip = reqs[b].ip
        /\ reqs[u].calls = <<"cf_get", "cf_delete">>
        /\ FailedOn(f, "block_ip") /\ reqs[f].ip = reqs[b].ip
        /\ reqs[b].ip \in DOMAIN tempBlocks
        /\ tempBlocks[reqs[b].ip] = [rule_id |-> reqs[b].ruleId, timeout |-> b]
        /\ timers[b].st = "armed"

----------------------------------------------------------------------------
(* C31 *)

\* In this step the unblock_ip request i answers success
UnblockSucceeds(i) ==
    /\ reqs[i].action = "unblock_ip"
    /\ reqs[i].pc # "done" /\ reqs'[i].pc = "done"
    /\ reqs'[i].resp.status = "success"

\* C31: when an unblock of ip answers success, with requests handled one at a
\* time and whatever blocks of ip came before, the backend holds no block rule
\* for ip and no expiry timer of ip is armed.
C31_UnblockLeavesNothing ==
    [][\A i \in ReqIds :
          UnblockSucceeds(i) =>
              /\ {x \in cfRules' : x.ip = reqs[i].ip /\ x.mode = "block"} = {}
              /\ \A t \in ReqIds : ~(timers'[t].st = "armed" /\ timers'[t].ip = reqs[i].ip)]_vars

----------------------------------------------------------------------------
(* C32 *)

\* The expiry callback of timer t has sent its DELETE of rule x
ExpiryDeleteSent(t, x) ==
    timers[t].st \in {"cf_delete", "done"} /\ timers[t].ruleId = x

\* The unblock_ip request i has sent its DELETE of rule x
UnblockDeleteSent(i, x) ==
    /\ reqs[i].action = "unblock_ip"
    /\ \E k \in DOMAIN reqs[i].calls : reqs[i].calls[k] = "cf_delete"
    /\ reqs[i].target = x

\* C32: with one request at a time and timers firing at any moment, no rule id
\* has its DELETE sent both by an expiry callback and by an unblock request.
C32_RemoveBlockOncePerRule ==
    \A x \in ReqIds :
        ~ \E t, i \in ReqIds : ExpiryDeleteSent(t, x) /\ UnblockDeleteSent(i, x)

----------------------------------------------------------------------------
(* C33 *)

\* Timers of ip that are armed, or fired with their callback still running
RunningTimers(ip) ==
    {t \in ReqIds : timers[t].ip = ip /\ timers[t].st \in {"armed", "cf_delete"}}

\* C33: with one request at a time and timers firing at any moment, an ip has
\* a ledger entry exactly when it has a timer that is armed or whose callback
\* is still running, and the entry's rule_id is the rule id that timer's
\* callback removes.
C33_EntryIffLiveTimer ==
    \A ip \in IPs :
        /\ ip \in DOMAIN tempBlocks <=> RunningTimers(ip) # {}
        /\ ip \in DOMAIN tempBlocks =>
              \A t \in RunningTimers(ip) : timers[t].ruleId = tempBlocks[ip].rule_id

----------------------------------------------------------------------------
(* C34 *)

\* list_blocked request l and unblock_ip request u were both answered 200
\* from the same rule list of the backend
SameRuleSet(l, u) ==
    /\ reqs[l].pc = "done" /\ reqs[l].action = "list_blocked" /\ reqs[l].resp.code = 200
    /\ reqs[u].pc = "done" /\ reqs[u].action = "unblock_ip" /\ reqs[u].resp.code = 200
    /\ reqs[l].list = reqs[u].list

\* C34: when a list_blocked and an unblock(ip) were answered from the same
\* backend rule set, the unblock answered not_found exactly when ip is not
\* among the ips list_blocked reported.
C34_UnblockAgreesWithList ==
    \A l, u \in ReqIds :
        SameRuleSet(l, u) =>
            (reqs[u].resp.status = "not_found" <=> reqs[u].ip \notin reqs[l].resp.ips)

----------------------------------------------------------------------------
(* C35 *)

\* In this step the cleanup request answers success
CleanupSucceeds == sweep.pc # "done" /\ sweep'.pc = "done" /\ sweep'.status = "success"

\* The rules the records of these ips pointed to when the cleanup arrived
RulesOfRecords(ips) == {x \in sweep.rules0 : \E ip \in ips : x.id = sweep.kv0[ip].rule_id}

\* C35: when a cleanup request of the storage-backed variant answers success,
\* cleaned_ips are exactly the ips whose record it deleted; every record that
\* had expired when the request arrived is among them and no record that is
\* still unexpired when it answers is; for each cleaned ip the record is gone
\* and so is the rule the record named; every other record and every other
\* rule of the zone, the earlier rule of an overwritten record included, is
\* as it was.
C35_CleanupRemovesExpired ==
    [][CleanupSucceeds =>
          LET cleaned == sweep'.expired
              before == DOMAIN sweep.kv0
          IN /\ cleaned \subseteq before
             /\ DOMAIN kv' = before \ cleaned
             /\ \A ip \in before :
                   /\ sweep.kv0[ip].expires_at < sweep.now0 => ip \in cleaned
                   /\ sweep.kv0[ip].expires_at >= now' => ip \notin cleaned
                   /\ ip \notin cleaned => kv'[ip] = sweep.kv0[ip]
             /\ cfRules' = sweep.rules0 \ RulesOfRecords(cleaned)]_vars

\* C35 witness: the first ip was blocked twice and its record, which names
\* the second rule, expired; the second ip's record has not expired. The
\* cleanup answered success with the first ip only: the second rule and the
\* first ip's record are gone, the first rule, the second ip's rule and its
\* record are still there.
C35_OverwrittenAndUnexpired ==
    \E a, b, c \in ReqIds :
        /\ a < b /\ reqs[a].ip = reqs[b].ip /\ reqs[c].ip # reqs[a].ip
        /\ \A i \in {a, b, c} : reqs[i].pc = "done" /\ reqs[i].resp.action = "temp_block_ip"
        /\ sweep.pc = "done" /\ sweep.status = "success"
        /\ sweep.expired = {reqs[a].ip}
        /\ sweep.kv0[reqs[a].ip].rule_id = reqs[b].ruleId
        /\ DOMAIN kv = {reqs[c].ip}
        /\ {x.id : x \in cfRules} = {reqs[a].ruleId, reqs[c].ruleId}

============================================================================
